---- MODULE Spec2Model ----
(***************************************************************************)
(* Request-processing pipeline of the FastAPI service: the middleware      *)
(* chain built in app/main.py (correlation, logging, JWT authentication,   *)
(* CORS), the route handler, the exception handlers of core/exceptions.py, *)
(* the redaction engine of utils/pii.py and the JSON log formatter.        *)
(***************************************************************************)
EXTENDS Naturals, Sequences, FiniteSets, TLC

VARIABLES
    pii_fields,     \* pii_fields captured by register_exception_handlers
    formatter_pii,  \* ServiceJSONFormatter._pii_fields
    exempt_paths,   \* JWTAuthenticationMiddleware.exempt_paths
    jwt_cfg,        \* settings read by decode_token: [audience, issuer]
    enclosing,      \* value of the context variable in a worker before any request
    active,         \* the request slots the server processes concurrently
    workload,       \* the requests clients send and what the handlers do with them
    unit,           \* the last call of a function made on its own: arguments and result
    boot,           \* the lifespan of the application: its position, the services, the handles
    svc,            \* the collaborator modules: their handles, connections and init tasks
    served,         \* number of requests that have entered the chain
    uuids,          \* number of uuid4() identifiers generated so far
    pc,             \* per request: position in the chain ("idle", "in", "out", ...)
    at,             \* per request: index of the stage the request is at
    req,            \* per request: the inbound request (header, path, method, ...)
    cx,             \* per request: _correlation_id_ctx in the task of each stage
    state_cid,      \* per request: request.state.correlation_id
    state_user,     \* per request: request.state.user
    dsp,            \* per request: locals of CorrelationIdMiddleware.dispatch
    log_cid,        \* per request: local correlation_id of RequestLoggingMiddleware.dispatch
    exc,            \* per request: the exception in flight
    resp,           \* per request: the response in flight / sent
    sink,           \* per request: the records written to the log sink
    hist            \* per request: history (mints, releases, handler calls, ...)

vars == <<pii_fields, formatter_pii, exempt_paths, jwt_cfg, enclosing, active, workload, unit, boot, svc, served, uuids,
          pc, at, req, cx, state_cid, state_user, dsp, log_cid, exc, resp, sink, hist>>

config == <<pii_fields, formatter_pii, exempt_paths, jwt_cfg, enclosing, active, workload, unit, boot,
            svc>>

-----------------------------------------------------------------------------
(* Bounds of the model *)

\* requests served one after the other by a worker
MaxRequests == 2

\* the request slots: requests in flight at the same time
Reqs == {"r1", "r2"}

-----------------------------------------------------------------------------
(* Python values *)

\* a ContextVar with no value in the current context (Token.MISSING), and an
\* attribute that is not set
MISSING == "<missing>"
\* Python's None
PYNONE == "<None>"

\* JSON-like values are tagged: str (a text that does not parse as JSON),
\* jstr (a text that parses as JSON to v, not in json.dumps form),
\* jstrc (the text json.dumps(v)), num, null, map (ordered key/value pairs), list.
JStr(s) == [t |-> "str", v |-> s]
JNum(n) == [t |-> "num", v |-> n]
JNull == [t |-> "null", v |-> 0]
JMap(pairs) == [t |-> "map", v |-> pairs]
JList(items) == [t |-> "list", v |-> items]
JText(j) == [t |-> "jstr", v |-> j]
\* a bytes object (the raw body of a request that is not declared as JSON)
JBytes(s) == [t |-> "bytes", v |-> s]

\* json.dumps / JSONResponse.render
JDumps(j) == [t |-> "jstrc", v |-> j]
\* json.loads succeeds on the text
JParses(s) == s.t \in {"jstr", "jstrc"}
JLoads(s) == s.v

\* bool(x) of a JSON-like value
Truthy(j) ==
    CASE j.t = "str" -> j.v # ""
      [] j.t \in {"jstr", "jstrc"} -> TRUE
      [] j.t = "num" -> j.v # 0
      [] j.t = "null" -> FALSE
      [] j.t \in {"map", "list"} -> Len(j.v) > 0

\* bool(s) of an Optional[str]
StrTruthy(s) == s \notin {MISSING, PYNONE, ""}

\* str.lower() on the key names and scheme names the model uses
Lower(s) ==
    CASE s = "Email" -> "email"
      [] s = "Bearer" -> "bearer"
      [] s = "BEARER" -> "bearer"
      [] OTHER -> s

\* str.strip() on the header values the model uses
Strip(s) == IF s = " " THEN "" ELSE s

\* dict.get(key): the value of the first pair with that key, None when absent
HasKey(m, k) == \E i \in DOMAIN m.v : m.v[i][1] = k
MapGet(m, k) ==
    IF HasKey(m, k)
    THEN m.v[CHOOSE i \in DOMAIN m.v : m.v[i][1] = k /\ \A j \in 1..(i-1) : m.v[j][1] # k][2]
    ELSE JNull

\* d[key] = value: in place when the key exists, appended otherwise
MapSet(m, k, val) ==
    IF HasKey(m, k)
    THEN JMap([i \in DOMAIN m.v |-> IF m.v[i][1] = k THEN <<k, val>> ELSE m.v[i]])
    ELSE JMap(Append(m.v, <<k, val>>))

-----------------------------------------------------------------------------
(* utils/pii.py: the redaction engine *)

REDACTION_TEXT == "***REDACTED***"

\* a redaction of the keys of the outermost mapping alone
_scrub_flat(data, pii_keys) ==
    IF data.t = "map"
    THEN JMap([i \in DOMAIN data.v |->
                 <<data.v[i][1],
                   IF Lower(data.v[i][1]) \in pii_keys THEN JStr(REDACTION_TEXT)
                   ELSE data.v[i][2]>>])
    ELSE data

\* a redaction whose JSON-text leaves are encoded twice
RECURSIVE _scrub_twice(_, _)
_scrub_twice(data, pii_keys) ==
    CASE data.t = "map" ->
           JMap([i \in DOMAIN data.v |->
                   <<data.v[i][1],
                     IF Lower(data.v[i][1]) \in pii_keys
                     THEN JStr(REDACTION_TEXT)
                     ELSE _scrub_twice(data.v[i][2], pii_keys)>>])
      [] data.t = "list" ->
           JList([i \in DOMAIN data.v |-> _scrub_twice(data.v[i], pii_keys)])
      [] data.t \in {"jstr", "jstrc"} ->
           JDumps(JDumps(_scrub_twice(JLoads(data), pii_keys)))
      [] OTHER -> data

RECURSIVE _scrub(_, _)
_scrub(data, pii_keys) ==
    CASE data.t = "map" ->
           JMap([i \in DOMAIN data.v |->
                   <<data.v[i][1],
                     IF Lower(data.v[i][1]) \in pii_keys
                     THEN JStr(REDACTION_TEXT)
                     ELSE _scrub(data.v[i][2], pii_keys)>>])
      [] data.t = "list" ->
           JList([i \in DOMAIN data.v |-> _scrub(data.v[i], pii_keys)])
      [] data.t \in {"jstr", "jstrc"} ->
           JDumps(_scrub(JLoads(data), pii_keys))
      [] OTHER -> data

\* scrub_pii without the test of line 36
scrub_pii_traversing(data, fields) == _scrub(data, {Lower(f) : f \in fields})

scrub_pii(data, fields) ==
    LET pii_keys == {Lower(f) : f \in fields}
    IN  IF pii_keys = {} THEN data ELSE _scrub(data, pii_keys)

\* the elements of a list
Range(seq) == {seq[i] : i \in DOMAIN seq}

\* core/config.py, Settings.pii_fields_list, lines 60-65: the setting is a
\* comma-separated text, given here as the sequence of its items; a blank
\* setting gives the empty list, otherwise the stripped non-blank items
pii_fields_list(items) ==
    LET kept == SelectSeq(items, LAMBDA item : Strip(item) # "")
    IN  [i \in DOMAIN kept |-> Strip(kept[i])]

\* a call of a function on its own: its name, its arguments, its result, and
\* whether the first argument is the result of the call before
Call(fn, args, result, again) == [fn |-> fn, args |-> args, result |-> result, again |-> again]
NoCall == Call("none", <<>>, JNull, FALSE)

-----------------------------------------------------------------------------
(* core/correlation.py: the ambient correlation id *)

CORRELATION_HEADER == "x-correlation-id"

\* str(uuid4()): the n-th identifier minted, distinct from every other one
new_correlation_id(n) == "uuid-" \o ToString(n)

\* _correlation_id_ctx.get(default)
get_correlation_id(ctxval, default) == IF ctxval = MISSING THEN default ELSE ctxval

\* reset_correlation_id without a token: the variable is set to None
reset_correlation_id_none(ctxval, token) == PYNONE

\* reset_correlation_id(token): Token objects are truthy, so the variable goes
\* back to the value the token recorded; without a token it is set to None
reset_correlation_id(ctxval, token) ==
    IF token.present THEN token.old_value ELSE PYNONE

-----------------------------------------------------------------------------
(* core/logging_config.py: CorrelationIdFilter and ServiceJSONFormatter *)

\* the formatter without its scrub_pii call
FormatRecord_raw(name, level, msg, extra, exc_text, ctxval, fields) ==
    LET cid == JStr(get_correlation_id(ctxval, "-"))
        extras == MapSet(extra, "correlation_id", cid)
        base == << <<"level", JStr(level)>>, <<"logger", JStr(name)>>,
                   <<"message", JStr(msg)>>,
                   <<"correlation_id", cid>>, <<"extra", extras>> >>
    IN  JDumps(IF exc_text = "" THEN JMap(base)
               ELSE JMap(Append(base, <<"exception", JStr(exc_text)>>)))

\* One record as it reaches the sink: the filter stores the ambient id on the
\* record (so it is among the extras), the formatter builds the payload,
\* scrubs it with its own field list and serialises it.
FormatRecord(name, level, msg, extra, exc_text, ctxval, fields) ==
    LET cid == JStr(get_correlation_id(ctxval, "-"))
        extras == MapSet(extra, "correlation_id", cid)
        base == << <<"level", JStr(level)>>, <<"logger", JStr(name)>>,
                   <<"message", JStr(msg)>>,
                   <<"correlation_id", cid>>, <<"extra", extras>> >>
        log_payload == IF exc_text = "" THEN JMap(base)
                       ELSE JMap(Append(base, <<"exception", JStr(exc_text)>>))
    IN  JDumps(scrub_pii(log_payload, fields))

-----------------------------------------------------------------------------
(* Response headers (starlette MutableHeaders: a list of name/value pairs) *)

RECURSIVE SumSeq(_)
SumSeq(s) == IF Len(s) = 0 THEN 0 ELSE Head(s) + SumSeq(Tail(s))

\* len(body): a size that grows with the content of the body
RECURSIVE BodyLen(_)
BodyLen(j) ==
    CASE j.t = "map" -> 2 + SumSeq([i \in DOMAIN j.v |-> 1 + BodyLen(j.v[i][2])])
      [] j.t = "list" -> 2 + SumSeq([i \in DOMAIN j.v |-> BodyLen(j.v[i])])
      [] j.t \in {"jstr", "jstrc"} -> BodyLen(j.v)
      [] OTHER -> 1

HHas(h, name) == \E i \in DOMAIN h : h[i][1] = name
HGet(h, name, default) ==
    IF HHas(h, name)
    THEN h[CHOOSE i \in DOMAIN h : h[i][1] = name /\ \A j \in 1..(i-1) : h[j][1] # name][2]
    ELSE default

\* response.headers[name] = value: the first entry is replaced, further
\* entries of that name are dropped, a new name is appended
HSet(h, name, value) ==
    IF HHas(h, name)
    THEN LET first == CHOOSE i \in DOMAIN h : h[i][1] = name /\ \A j \in 1..(i-1) : h[j][1] # name
             marked == SelectSeq([i \in DOMAIN h |->
                                    IF i = first THEN <<name, value, "keep">>
                                    ELSE IF h[i][1] = name THEN <<name, value, "drop">>
                                    ELSE <<h[i][1], h[i][2], "keep">>],
                                 LAMBDA e : e[3] = "keep")
         IN  [i \in DOMAIN marked |-> <<marked[i][1], marked[i][2]>>]
    ELSE Append(h, <<name, value>>)

\* dict(response.headers): one entry per name, at the place of its first
\* occurrence and with the value Headers.__getitem__ returns (the first one)
HDict(h) ==
    LET marked == SelectSeq([i \in DOMAIN h |->
                               <<h[i][1], h[i][2],
                                 IF \A j \in 1..(i-1) : h[j][1] # h[i][1] THEN "keep" ELSE "drop">>],
                            LAMBDA e : e[3] = "keep")
    IN  [i \in DOMAIN marked |-> <<marked[i][1], marked[i][2]>>]

\* headers.pop(name, None)
HPop(h, name) == SelectSeq(h, LAMBDA e : e[1] # name)

\* Response.init_headers: the given headers, then content-length and
\* content-type when the given headers do not have them
InitHeaders(given, body, media_type) ==
    LET withLen == IF HHas(given, "content-length") THEN given
                   ELSE Append(given, <<"content-length", ToString(BodyLen(body))>>)
    IN  IF HHas(withLen, "content-type") \/ media_type = "" THEN withLen
        ELSE Append(withLen, <<"content-type", media_type>>)

\* The body stream of a response: the number of non-empty chunks it is sent in,
\* and, when the stream raises (a streaming handler that fails after the
\* response has started), the number of chunks delivered before it does.
Whole(n) == [chunks |-> n, readable |-> n, fails |-> FALSE]
Broken(n, k) == [chunks |-> n, readable |-> k, fails |-> TRUE]

\* JSONResponse(content, status_code, headers)
JSONResponse(status, content, headers) ==
    [status |-> status, headers |-> InitHeaders(headers, JDumps(content), "application/json"),
     body |-> JDumps(content), stream |-> Whole(1)]

\* starlette Response(content=bytes, status_code, headers, media_type)
StarletteResponse(status, body, headers, media_type) ==
    [status |-> status, headers |-> InitHeaders(headers, body, media_type), body |-> body,
     stream |-> Whole(IF body = JStr("") THEN 0 ELSE 1)]

NoResponse == [status |-> 0, headers |-> <<>>, body |-> JStr(""), stream |-> Whole(0)]

-----------------------------------------------------------------------------
(* services/auth/jwt.py: extract_token and decode_token *)

\* An Authorization header is absent or a text; a text is a sequence of atoms,
\* each a single space " " or a run of characters without a space.
NoAuth == [present |-> FALSE, atoms |-> <<>>]
AuthText(atoms) == [present |-> TRUE, atoms |-> atoms]

\* str.partition(" "): the text before the first space and the text after it
FirstSpace(atoms) ==
    IF \E i \in DOMAIN atoms : atoms[i] = " "
    THEN CHOOSE i \in DOMAIN atoms : atoms[i] = " " /\ \A j \in 1..(i-1) : atoms[j] # " "
    ELSE Len(atoms) + 1
PartitionHead(atoms) == SubSeq(atoms, 1, FirstSpace(atoms) - 1)
PartitionTail(atoms) == SubSeq(atoms, FirstSpace(atoms) + 1, Len(atoms))

\* the outcome of extract_token / decode_token: a value, or an exception raised
Returned(value) == [raised |-> "none", message |-> "", status_code |-> 0, value |-> value]
AppException(message, status_code) ==
    [raised |-> "AppException", message |-> message, status_code |-> status_code,
     value |-> <<>>]

\* extract_token comparing the scheme with "Bearer" as it is written
extract_token_exact_scheme(auth_header) ==
    IF ~auth_header.present \/ auth_header.atoms = <<>>
    THEN AppException("Missing authorization header", 401)
    ELSE LET scheme == PartitionHead(auth_header.atoms)
             token == PartitionTail(auth_header.atoms)
         IN  IF ~(Len(scheme) = 1 /\ scheme[1] = "Bearer") \/ token = <<>>
             THEN AppException("Invalid authorization header format", 401)
             ELSE Returned(token)

\* lines 30-36
extract_token(auth_header) ==
    IF ~auth_header.present \/ auth_header.atoms = <<>>
    THEN AppException("Missing authorization header", 401)
    ELSE LET scheme == PartitionHead(auth_header.atoms)
             token == PartitionTail(auth_header.atoms)
         IN  IF ~(Len(scheme) = 1 /\ Lower(scheme[1]) = "bearer") \/ token = <<>>
             THEN AppException("Invalid authorization header format", 401)
             ELSE Returned(token)

\* The tokens a client may present: the algorithm of the token header, whether
\* the signature verifies under settings.jwt_secret, whether exp has passed,
\* and the iss and aud claims (PYNONE when the claim is absent).
Jwt(alg, sig_ok, expired, iss, aud, sub) ==
    [alg |-> alg, sig_ok |-> sig_ok, expired |-> expired, iss |-> iss, aud |-> aud, sub |-> sub]

TokenNames == {"T_valid", "T_badsig", "T_expired", "T_iss", "T_aud", "T_alg", "T_noaud"}

TokenOf(name) ==
    CASE name = "T_valid"   -> Jwt("HS256", TRUE, FALSE, "issuer-a", "api", "alice")
      [] name = "T_badsig"  -> Jwt("HS256", FALSE, FALSE, "issuer-a", "api", "mallory")
      [] name = "T_expired" -> Jwt("HS256", TRUE, TRUE, "issuer-a", "api", "alice")
      [] name = "T_iss"     -> Jwt("HS256", TRUE, FALSE, "issuer-b", "api", "bob")
      [] name = "T_aud"     -> Jwt("HS256", TRUE, FALSE, "issuer-a", "other", "bob")
      [] name = "T_alg"     -> Jwt("none", TRUE, FALSE, "issuer-a", "api", "mallory")
      [] name = "T_noaud"   -> Jwt("HS256", TRUE, FALSE, "issuer-a", PYNONE, "carol")

\* jose.jwt.decode(token, secret, algorithms, audience, issuer, options) raises
\* a JWTError (or one of its subclasses) on the token
JWTError(token, cfg) ==
    \/ ~(Len(token) = 1 /\ token[1] \in TokenNames)
    \/ LET j == TokenOf(token[1])
       IN  \/ j.alg # cfg.algorithm
           \/ ~j.sig_ok
           \/ j.expired
           \/ (cfg.issuer # PYNONE /\ j.iss # cfg.issuer)
           \/ (StrTruthy(cfg.audience) /\ j.aud # PYNONE /\ j.aud # cfg.audience)

\* decode_token without its except clause: the library's error escapes
decode_token_uncaught(token, cfg) ==
    IF JWTError(token, cfg)
    THEN [raised |-> "JWTError", message |-> "JWTError", status_code |-> 0, value |-> <<>>]
    ELSE Returned(<<TokenOf(token[1]).sub>>)

decode_token(token, cfg) ==
    IF JWTError(token, cfg)
    THEN AppException("Invalid or expired token", 401)
    ELSE Returned(<<TokenOf(token[1]).sub>>)

-----------------------------------------------------------------------------
(* app/main.py: the application and its middleware chain *)

\* an order in which the authentication stage would be added last
MiddlewareAdded_jwt_last == <<"cors", "logging", "correlation", "jwt">>

\* the add_middleware calls, in the order main.py makes them
MiddlewareAdded == <<"cors", "jwt", "logging", "correlation">>

\* Starlette builds the stack so that the middleware added last is outermost
Chain == [i \in 1..Len(MiddlewareAdded) |-> MiddlewareAdded[Len(MiddlewareAdded) + 1 - i]]

\* index of the application inside the chain (ExceptionMiddleware and router);
\* index 0 is ServerErrorMiddleware, outside every added middleware
App == Len(Chain) + 1
Levels == 1..App

StageAt(r) == IF at[r] \in 1..Len(Chain) THEN Chain[at[r]] ELSE "none"

-----------------------------------------------------------------------------
(* Inputs *)

\* configured PII_FIELDS lists
PiiConfigs == {{}, {"Email", "message"}}

\* deployments: the AUTH_EXEMPT_PATHS list and the JWT settings. The default
\* one (nothing exempt by configuration, no audience, no issuer) and one with
\* /health exempt and both audience and issuer set.
Deployments ==
    {[exempt |-> {},
      jwt |-> [algorithm |-> "HS256", audience |-> PYNONE, issuer |-> PYNONE]],
     [exempt |-> {"/health"},
      jwt |-> [algorithm |-> "HS256", audience |-> "api", issuer |-> "issuer-a"]]}

\* value of the context variable around the chain
EnclosingValues == {MISSING, "cid-enclosing"}

\* inbound X-Correlation-ID header: absent, empty, blank, or a client id
CorrelationHeaders == {MISSING, "", " ", "cid-client"}

RequestShapes ==
    {[path |-> "/health", method |-> "GET", preflight |-> FALSE],
     [path |-> "/users", method |-> "GET", preflight |-> FALSE],
     [path |-> "/users", method |-> "OPTIONS", preflight |-> FALSE],
     [path |-> "/users", method |-> "OPTIONS", preflight |-> TRUE],
     [path |-> "/docs", method |-> "GET", preflight |-> FALSE]}

\* inbound Authorization header: absent, malformed, or a bearer token
AuthHeaders ==
    {NoAuth, AuthText(<<"Basic", " ", "abc">>), AuthText(<<"Bearer", " ">>),
     AuthText(<<"bearer", " ", "T_valid">>), AuthText(<<"Bearer", " ", "T_badsig">>),
     AuthText(<<"Bearer", " ", "T_expired">>), AuthText(<<"Bearer", " ", "T_iss">>),
     AuthText(<<"Bearer", " ", "T_aud">>)}

\* What the application (router, dependencies, route handler) does with a
\* request: it returns a response or raises.
Outcome(kind, status, ctype, val, aux, text, stream) ==
    [kind |-> kind, status |-> status, ctype |-> ctype, val |-> val, aux |-> aux,
     text |-> text, stream |-> stream, headers |-> <<>>]

\* the same outcome with headers the handler sets on its response
WithHeaders(o, headers) == [o EXCEPT !.headers = headers]

\* float("nan") in a parsed body: json.loads accepts the NaN literal, the
\* renderer of JSONResponse (allow_nan=False) raises ValueError on it
NaN == [t |-> "nan", v |-> 0]

\* JSONResponse.render accepts the value
RECURSIVE Serialisable(_)
Serialisable(j) ==
    CASE j.t = "map" -> \A i \in DOMAIN j.v : Serialisable(j.v[i][2])
      [] j.t = "list" -> \A i \in DOMAIN j.v : Serialisable(j.v[i])
      [] j.t \in {"nan", "bytes"} -> FALSE
      [] OTHER -> TRUE

PiiBody == JMap(<< <<"email", JStr("a@b.com")>> >>)

\* AppException.__init__, core/exceptions.py lines 21-25, with the keyword
\* arguments as sequences (empty when the caller omits one): the status is
\* 400 and the payload an empty mapping when the caller gives none
AppExceptionRaised(message, status_code, payload) ==
    Outcome("app", IF status_code = <<>> THEN 400 ELSE status_code[1], "",
            IF payload = <<>> THEN JMap(<<>>) ELSE payload[1], JNull, message, Whole(0))

\* what pydantic reports for a body sent with a content type that is not
\* JSON: FastAPI validates the raw bytes, and the error holds them as input
RawBody == JBytes("email=a@b.com")
RawBodyErrors ==
    JList(<< JMap(<< <<"type", JStr("model_attributes_type")>>,
                     <<"loc", JList(<<JStr("body")>>)>>,
                     <<"msg", JStr("Input should be a valid dictionary or object to extract fields from")>>,
                     <<"input", RawBody>> >>) >>)

\* the four backing services, by the module that holds the handle
Collaborators == {"mysql", "redis", "opensearch", "rabbitmq"}

\* what the accessor of a collaborator raises while its handle is unset:
\* get_session (mysql.py lines 56-60), get_client (redis_cache.py lines 48-49,
\* opensearch_client.py lines 111-112), get_connection (connection.py lines
\* 46-47); the message of get_session without its quotation marks
UnsetHandle(c) ==
    CASE c = "mysql" ->
           AppExceptionRaised("Database connection unavailable. Ensure MySQL is running and MYSQL_DSN is correct.",
                              <<503>>, <<>>)
      [] c = "redis" ->
           Outcome("unhandled", 0, "", JNull, JNull,
                   "RuntimeError: Redis client not initialised - Redis connection unavailable", Whole(0))
      [] c = "opensearch" ->
           Outcome("unhandled", 0, "", JNull, JNull,
                   "RuntimeError: OpenSearch client not initialised - OpenSearch connection unavailable", Whole(0))
      [] c = "rabbitmq" ->
           Outcome("unhandled", 0, "", JNull, JNull,
                   "RuntimeError: RabbitMQ connection not initialised - RabbitMQ connection unavailable", Whole(0))

\* the collaborator modules that define check_status: services/database/mysql.py
\* (line 73) and services/search/opensearch_client.py (line 132);
\* services/cache/redis_cache.py and services/messaging/connection.py define none
HasCheckStatus == {"mysql", "opensearch"}

\* module.check_status(settings) with the services of the set up reachable:
\* the probe catches every exception and returns a boolean; on a module
\* without the function the attribute lookup raises
check_status(c, up) ==
    IF c \in HasCheckStatus THEN Returned(<<c \in up>>)
    ELSE [raised |-> "AttributeError", message |-> "module has no attribute 'check_status'",
          status_code |-> 0, value |-> <<>>]

\* the tasks that call the init function of a collaborator module
Tasks == {"t1", "t2"}

\* a task that is not inside an init call: the module of its last call, the
\* object it created before its first await, whether the host is https, the
\* handle it found set, the number of objects it created, how the call ended
NoTask == [pc |-> "idle", c |-> "none", conn |-> 0, ssl |-> FALSE, found |-> 0, made |-> 0,
           result |-> "none", failed |-> FALSE]

\* the collaborator modules after import: every handle is None (0), nothing
\* was created or connected; c is the module whose functions the tasks call
NoSvc == [tasks |-> {}, c |-> "none", handle |-> [c \in Collaborators |-> 0], factory |-> 0,
          made |-> [c \in Collaborators |-> 0], live |-> [c \in Collaborators |-> {}],
          down |-> {}, calls |-> 0, last |-> <<"none", "none">>,
          task |-> [t \in Tasks |-> NoTask]]

\* the lifespan is not running
\* the environment variables the settings of interest are read from, each
\* unset (the empty sequence) or set to a value; PII_FIELDS as the sequence
\* of the items of its comma-separated text
NoEnviron == [PII_FIELDS |-> <<>>, JWT_SECRET |-> <<>>, JWT_AUDIENCE |-> <<>>, MYSQL_DSN |-> <<>>]

\* get_settings, core/config.py lines 68-70, after cache_clear or at the
\* first call: Settings() read from the environment, with the defaults of
\* lines 27-30 and 44 for what is unset
get_settings(environ) ==
    [pii |-> Range(pii_fields_list(IF environ.PII_FIELDS = <<>> THEN <<>>
                                   ELSE environ.PII_FIELDS[1])),
     secret |-> IF environ.JWT_SECRET = <<>> THEN "changeme" ELSE environ.JWT_SECRET[1],
     algorithm |-> "HS256",
     audience |-> IF environ.JWT_AUDIENCE = <<>> THEN PYNONE ELSE environ.JWT_AUDIENCE[1],
     issuer |-> PYNONE]

\* load_secrets_into_env, aws_secrets.py lines 56-58: os.environ.setdefault
\* for every key of the payload, which sets the variables that are unset
\* and leaves the others
setdefault(environ, secrets) ==
    [k \in DOMAIN environ |-> IF environ[k] = <<>> THEN secrets[k] ELSE environ[k]]

NoBoot == [pc |-> "off", up |-> {}, secrets |-> "none", probes |-> <<>>, handles |-> {},
           limiter |-> FALSE, log |-> <<>>,
           environ |-> NoEnviron, settings |-> get_settings(NoEnviron),
           imported |-> get_settings(NoEnviron)]

Returns ==
    {Outcome("ok", 200, "application/json",
             JDumps(JMap(<< <<"status", JStr("ok")>> >>)), JNull, "", Whole(1)),
     Outcome("ok", 200, "application/json",
             JDumps(JMap(<< <<"correlation_id", JStr("cid-stored")>>, <<"found", JNum(1)>> >>)),
             JNull, "", Whole(1)),
     Outcome("ok", 200, "application/json", JDumps(JNull), JNull, "", Whole(1)),
     Outcome("ok", 200, "application/json", JStr("{not json"), JNull, "", Whole(1)),
     Outcome("ok", 204, "application/json", JStr(""), JNull, "", Whole(0)),
     Outcome("ok", 200, "text/html; charset=utf-8", JStr("<html>"), JNull, "", Whole(1))}
    \cup {Outcome("ok", 200, "application/json",
                  JDumps(JList(<<JNum(1), JNum(2), JNum(3)>>)), JNull, "", st) :
            st \in {Whole(2), Broken(2, 0), Broken(2, 1)}}
    \cup {WithHeaders(Outcome("ok", 200, "application/json",
                               JDumps(JMap(<< <<"id", JNum(7)>> >>)), JNull, "", Whole(1)),
                       << <<"set-cookie", "session=s1">>, <<"set-cookie", "theme=dark">>,
                          <<"x-request-cost", "3">> >>),
          Outcome("ok", 200, "application/json",
                  JText(JMap(<< <<"ratio", NaN>> >>)), JNull, "", Whole(1))}

HttpDetails ==
    {JStr("Not Found"),
     JMap(<< <<"message", JStr("alice@example.com")>>, <<"code", JNum(7)>> >>),
     JMap(<< <<"message", JStr("bob@example.com")>>, <<"code", JNum(7)>> >>),
     JMap(<< <<"users", JList(<< JMap(<< <<"Email", JStr("a@b.com")>>,
                                         <<"name", JStr("x")>> >>) >>)>> >>),
     JMap(<< <<"message", PiiBody>> >>),
     JMap(<< <<"blob", JText(PiiBody)>>, <<"raw", JText(JList(<<JNum(1), JNum(2)>>))>>,
             <<"error", JStr("bad blob")>> >>),
     JMap(<< <<"message", JStr("")>>, <<"detail", JStr("fallback")>> >>)}

ValidationErrors ==
    {JList(<< JMap(<< <<"type", JStr("missing")>>,
                      <<"loc", JList(<<JStr("body"), JStr("full_name")>>)>>,
                      <<"msg", JStr("Field required")>>,
                      <<"input", PiiBody>> >>) >>)}

Raises ==
    {Outcome("http", st, "", d, JNull, "", Whole(0)) : st \in {404}, d \in HttpDetails}
    \cup {Outcome("validation", 422, "", e, b, "", Whole(0)) :
            e \in ValidationErrors, b \in {PiiBody, JNull}}
    \cup {Outcome("validation", 422, "", RawBodyErrors, RawBody, "", Whole(0))}
    \cup {AppExceptionRaised("User not found", <<404>>, <<>>),
          AppExceptionRaised("Rejected", <<>>,
                             <<JMap(<< <<"email", JStr("a@b.com")>>, <<"name", JStr("x")>> >>)>>)}
    \cup {Outcome("unhandled", 0, "", JNull, JNull,
                  "IntegrityError: duplicate entry a@b.com", Whole(0))}
    \cup {UnsetHandle(c) : c \in Collaborators}

NoOutcome == Outcome("none", 0, "", JNull, JNull, "", Whole(0))

\* what clients send and handlers do when one request is processed at a time
SequentialTraffic ==
    [headers |-> CorrelationHeaders, shapes |-> RequestShapes, auths |-> AuthHeaders,
     returns |-> Returns, raises |-> Raises]

\* what clients send and handlers do when requests are processed concurrently:
\* with and without an inbound id, protected and pre-flight, without a token
\* and with the tokens of two principals, a JSON result and one error of each
\* kind
ConcurrentTraffic ==
    [headers |-> {MISSING, "cid-client"},
     shapes |-> {[path |-> "/users", method |-> "GET", preflight |-> FALSE],
                 [path |-> "/users", method |-> "OPTIONS", preflight |-> TRUE]},
     auths |-> {NoAuth, AuthText(<<"bearer", " ", "T_valid">>),
                AuthText(<<"Bearer", " ", "T_noaud">>)},
     returns |-> {Outcome("ok", 200, "application/json",
                          JDumps(JMap(<< <<"status", JStr("ok")>> >>)), JNull, "", Whole(1))},
     raises |-> {Outcome("http", 404, "", JStr("Not Found"), JNull, "", Whole(0)),
                 Outcome("validation", 422, "", JList(<<>>), JNull, "", Whole(0)),
                 Outcome("app", 404, "", JMap(<<>>), JNull, "User not found", Whole(0)),
                 UnsetHandle("redis")}]

-----------------------------------------------------------------------------
(* State *)

\* a single context that every request would read and write
Task_shared(r) == "r1"

\* the context a request runs in: the server starts one task per request, and
\* a task owns a copy of the context, so a ContextVar is private to the request
Task(r) == r

NoRequest == [cid_header |-> MISSING, path |-> "", method |-> "", preflight |-> FALSE,
              authorization |-> NoAuth]
NoToken == [present |-> FALSE, old_value |-> MISSING]
NoDispatch == [in_try |-> FALSE, token |-> NoToken, correlation_id |-> MISSING]
NoHist == [mints |-> 0, sets |-> 0, releases |-> 0, before |-> MISSING, fallbacks |-> 0,
           handler_calls |-> 0, responders |-> 0, events |-> <<>>,
           rejections |-> 0, origin |-> NoResponse, rewrite |-> "none", responses |-> 0,
           raised |-> NoOutcome, auth_reads |-> 0]

\* what clients send and handlers do with a client that stays connected: with
\* and without an inbound id, a protected request and a pre-flight, without a token and with one that
\* verifies, a JSON result, a body that is not JSON, a stream that fails, and
\* one error of each kind
ConnectedTraffic ==
    [headers |-> {MISSING, "cid-client"},
     shapes |-> {[path |-> "/users", method |-> "GET", preflight |-> FALSE],
                 [path |-> "/users", method |-> "OPTIONS", preflight |-> TRUE]},
     auths |-> {NoAuth, AuthText(<<"Bearer", " ", "T_noaud">>)},
     returns |-> {Outcome("ok", 200, "application/json",
                          JDumps(JMap(<< <<"status", JStr("ok")>> >>)), JNull, "", Whole(1)),
                  Outcome("ok", 200, "application/json",
                          JDumps(JMap(<< <<"status", JStr("ok")>> >>)), JNull, "", Broken(2, 1)),
                  Outcome("ok", 200, "application/json", JStr("{not json"), JNull, "", Whole(1))},
     raises |-> ConcurrentTraffic.raises]

\* the inputs of the run
Traffic ==
    CASE workload = "sequential" -> SequentialTraffic
      [] workload = "concurrent" -> ConcurrentTraffic
      [] workload = "connected" -> ConnectedTraffic

Init ==
    /\ active = {"r1"}
    /\ workload = "sequential"
    /\ unit = NoCall
    /\ boot = NoBoot
    /\ svc = NoSvc
    /\ pii_fields \in PiiConfigs
    /\ formatter_pii = pii_fields
    /\ \E d \in Deployments : exempt_paths = d.exempt /\ jwt_cfg = d.jwt
    /\ enclosing \in EnclosingValues
    \* a worker whose context held an id beforehand runs the default settings
    /\ enclosing # MISSING => (pii_fields = {} /\ exempt_paths = {})
    /\ served = 0
    /\ uuids = 0
    /\ pc = [r \in Reqs |-> "idle"]
    /\ at = [r \in Reqs |-> 0]
    /\ req = [r \in Reqs |-> NoRequest]
    /\ cx = [r \in Reqs |-> [i \in Levels |-> enclosing]]
    /\ state_cid = [r \in Reqs |-> MISSING]
    /\ state_user = [r \in Reqs |-> MISSING]
    /\ dsp = [r \in Reqs |-> NoDispatch]
    /\ log_cid = [r \in Reqs |-> MISSING]
    /\ exc = [r \in Reqs |-> NoOutcome]
    /\ resp = [r \in Reqs |-> NoResponse]
    /\ sink = [r \in Reqs |-> <<>>]
    /\ hist = [r \in Reqs |-> NoHist]

\* the stage a response produced at or below index i is handed to: the nearest
\* enclosing middleware that acts on the response of call_next (the JWT and
\* CORS middlewares return it as it is), or 0 when there is none
ReturnTo(i) ==
    LET S == {j \in 1..i : j <= Len(Chain) /\ Chain[j] \in {"logging", "correlation"}}
    IN  IF S = {} THEN 0 ELSE CHOOSE j \in S : \A k \in S : k <= j

\* the stage an exception leaving index i reaches: the nearest enclosing
\* middleware with a handler for it (the finally of the correlation stage), or
\* 0 (ServerErrorMiddleware)
RaiseTo(i) ==
    LET S == {j \in 1..i : j <= Len(Chain) /\ Chain[j] = "correlation"}
    IN  IF S = {} THEN 0 ELSE CHOOSE j \in S : \A k \in S : k <= j

\* call_next of a BaseHTTPMiddleware: the rest of the chain runs in a child
\* task whose context is a copy of the caller's
CallNext(r) ==
    /\ pc' = [pc EXCEPT ![r] = "in"]
    /\ at' = [at EXCEPT ![r] = at[r] + 1]

Event(r, e) == [hist[r] EXCEPT !.events = Append(@, e)]

\* a client sends a request to a worker that is free
Enter(r) ==
    /\ pc[r] = "idle"
    /\ served < MaxRequests
    /\ r \in active
    /\ \E h \in Traffic.headers, sh \in Traffic.shapes, a \in Traffic.auths :
         req' = [req EXCEPT ![r] = [cid_header |-> h, path |-> sh.path, method |-> sh.method,
                                    preflight |-> sh.preflight, authorization |-> a]]
    /\ served' = served + 1
    /\ pc' = [pc EXCEPT ![r] = "in"]
    /\ at' = [at EXCEPT ![r] = 1]
    /\ hist' = [hist EXCEPT ![r] = [NoHist EXCEPT !.before = cx[Task(r)][1]]]
    /\ UNCHANGED <<config, uuids, cx, state_cid, state_user, dsp, log_cid, exc, resp, sink>>

-----------------------------------------------------------------------------
(* middlewares/correlation.py, request side *)

Log(r, record) == sink' = [sink EXCEPT ![r] = Append(@, record)]

\* the child task of call_next starts with a copy of the caller's context
ChildContext(r, own) ==
    cx' = [cx EXCEPT ![Task(r)] = [@ EXCEPT ![at[r]] = own, ![at[r] + 1] = own]]

\* dispatch, lines 24-50: the id is taken from the header or generated, stored
\* in the context variable and on request.state, logged, and the rest of the
\* chain is called inside the try block
CorrelationIn(r) ==
    /\ pc[r] = "in"
    /\ StageAt(r) = "correlation"
    /\ LET incoming == req[r].cid_header
           generate == ~StrTruthy(incoming)
           cid1 == IF generate THEN new_correlation_id(uuids + 1) ELSE incoming
           u1 == IF generate THEN uuids + 1 ELSE uuids
           token1 == [present |-> TRUE, old_value |-> cx[Task(r)][at[r]]]
           got == get_correlation_id(cid1, PYNONE)
           again == ~StrTruthy(got)
           correlation_id == IF again THEN new_correlation_id(u1 + 1) ELSE got
           u2 == IF again THEN u1 + 1 ELSE u1
           token == IF again THEN [present |-> TRUE, old_value |-> cid1] ELSE token1
           extra == JMap(<< <<"correlation_id", JStr(correlation_id)>>,
                            <<"path", JStr(req[r].path)>> >>)
       IN  /\ uuids' = u2
           /\ state_cid' = [state_cid EXCEPT ![r] = correlation_id]
           /\ dsp' = [dsp EXCEPT ![r] = [in_try |-> TRUE, token |-> token,
                                         correlation_id |-> correlation_id]]
           /\ IF ~StrTruthy(incoming) \/ ~StrTruthy(Strip(incoming))
              THEN Log(r, FormatRecord("app.middlewares.correlation", "INFO",
                          "Correlation ID not present in request, generated new one",
                          extra, "", correlation_id, formatter_pii))
              ELSE Log(r, FormatRecord("app.middlewares.correlation", "DEBUG", "Using correlation ID from request header",
                          extra, "", correlation_id, formatter_pii))
           /\ ChildContext(r, correlation_id)
           /\ hist' = [hist EXCEPT ![r] =
                         [@ EXCEPT !.mints = @ + (u2 - uuids),
                                   !.sets = @ + (IF again THEN 2 ELSE 1),
                                   !.events = Append(@, "correlation")]]
    /\ CallNext(r)
    /\ UNCHANGED <<config, served, req, state_user, log_cid, exc, resp>>

-----------------------------------------------------------------------------
(* middlewares/logging.py *)

\* dispatch, lines 20-33
LoggingIn(r) ==
    /\ pc[r] = "in"
    /\ StageAt(r) = "logging"
    /\ LET correlation_id == IF StrTruthy(state_cid[r]) THEN state_cid[r]
                             ELSE get_correlation_id(cx[Task(r)][at[r]], PYNONE)
       IN  /\ log_cid' = [log_cid EXCEPT ![r] = correlation_id]
           /\ Log(r, FormatRecord("app.middlewares.logging", "INFO", "Incoming request",
                        JMap(<< <<"method", JStr(req[r].method)>>,
                                <<"path", JStr(req[r].path)>>,
                                <<"client", JStr("10.0.0.1")>>,
                                <<"correlation_id", JStr(correlation_id)>> >>),
                        "", cx[Task(r)][at[r]], formatter_pii))
    /\ ChildContext(r, cx[Task(r)][at[r]])
    /\ hist' = [hist EXCEPT ![r] = Event(r, "logging")]
    /\ CallNext(r)
    /\ UNCHANGED <<config, served, uuids, req, state_cid, state_user, dsp, exc, resp>>

\* dispatch, lines 34-45: call_next returned a response
LoggingOut(r) ==
    /\ pc[r] = "out"
    /\ StageAt(r) = "logging"
    /\ Log(r, FormatRecord("app.middlewares.logging", "INFO", "Outgoing response",
                 JMap(<< <<"status_code", JNum(resp[r].status)>>,
                         <<"duration_ms", JNum(1)>>,
                         <<"correlation_id", JStr(log_cid[r])>> >>),
                 "", cx[Task(r)][at[r]], formatter_pii))
    /\ at' = [at EXCEPT ![r] = ReturnTo(at[r] - 1)]
    /\ UNCHANGED <<config, served, uuids, pc, req, cx, state_cid, state_user, dsp, log_cid,
                   exc, resp, hist>>

-----------------------------------------------------------------------------
(* middlewares/jwt_auth.py *)

\* paths the dispatch method exempts whatever the configuration
BuiltinExempt == {"/favicon.ico", "/robots.txt", "/docs", "/redoc", "/openapi.json"}

\* an exemption by path alone
IsExempt_by_path(request) ==
    \/ request.path \in exempt_paths
    \/ request.path \in BuiltinExempt

IsExempt(request) ==
    \/ request.path \in exempt_paths
    \/ request.method = "OPTIONS"
    \/ request.path \in BuiltinExempt

\* extract_token alone: the token is read but not verified
Authenticate_unverified(auth_header) ==
    LET extracted == extract_token(auth_header)
    IN  IF extracted.raised # "none" THEN extracted
        ELSE Returned(<<TokenOf(extracted.value[1]).sub>>)

\* lines 42-43: extract_token, then decode_token on its result
Authenticate(auth_header) ==
    LET extracted == extract_token(auth_header)
    IN  IF extracted.raised # "none" THEN extracted
        ELSE decode_token(extracted.value, jwt_cfg)

\* dispatch, lines 28-39: exempt requests go on without authentication
JwtExempt(r) ==
    /\ pc[r] = "in"
    /\ StageAt(r) = "jwt"
    /\ IsExempt(req[r])
    /\ ChildContext(r, cx[Task(r)][at[r]])
    /\ hist' = [hist EXCEPT ![r] = Event(r, "jwt")]
    /\ CallNext(r)
    /\ UNCHANGED <<config, served, uuids, req, state_cid, state_user, dsp, log_cid, exc,
                   resp, sink>>

\* dispatch, lines 41-44 and 66: the token verifies, the claims are attached
JwtPass(r) ==
    /\ pc[r] = "in"
    /\ StageAt(r) = "jwt"
    /\ ~IsExempt(req[r])
    /\ Authenticate(req[r].authorization).raised = "none"
    /\ state_user' = [state_user EXCEPT ![r] = Authenticate(req[r].authorization).value[1]]
    /\ ChildContext(r, cx[Task(r)][at[r]])
    /\ hist' = [hist EXCEPT ![r] = [@ EXCEPT !.events = Append(@, "jwt"),
                                             !.auth_reads = @ + 1]]
    /\ CallNext(r)
    /\ UNCHANGED <<config, served, uuids, req, state_cid, dsp, log_cid, exc, resp, sink>>

\* dispatch, lines 45-64: an AppException of extract_token or decode_token is
\* turned into a JSON response; any other exception leaves the middleware
JwtReject(r) ==
    /\ pc[r] = "in"
    /\ StageAt(r) = "jwt"
    /\ ~IsExempt(req[r])
    /\ LET result == Authenticate(req[r].authorization)
           ambient == get_correlation_id(cx[Task(r)][at[r]], PYNONE)
           fallback == ~StrTruthy(state_cid[r]) /\ ~StrTruthy(ambient)
           correlation_id == IF StrTruthy(state_cid[r]) THEN state_cid[r]
                             ELSE IF StrTruthy(ambient) THEN ambient
                             ELSE new_correlation_id(uuids + 1)
           warning == FormatRecord("app.middlewares.jwt_auth", "WARNING", "JWT authentication failed",
                          JMap(<< <<"path", JStr(req[r].path)>>,
                                  <<"reason", JStr(result.message)>> >>),
                          "", cx[Task(r)][at[r]], formatter_pii)
           error == FormatRecord("app.middlewares.jwt_auth", "ERROR",
                          "Correlation ID not found - CorrelationIdMiddleware may not be running first!",
                          JMap(<< <<"path", JStr(req[r].path)>>,
                                  <<"correlation_id", JStr(correlation_id)>> >>),
                          "", cx[Task(r)][at[r]], formatter_pii)
           content == JMap(<< <<"error", JStr(result.message)>>,
                              <<"correlation_id", JStr(correlation_id)>> >>)
       IN  /\ result.raised # "none"
           /\ IF result.raised = "AppException"
              THEN /\ sink' = [sink EXCEPT ![r] = IF fallback THEN @ \o <<warning, error>>
                                                  ELSE Append(@, warning)]
                   /\ uuids' = IF fallback THEN uuids + 1 ELSE uuids
                   /\ resp' = [resp EXCEPT ![r] = JSONResponse(result.status_code, content, <<>>)]
                   /\ hist' = [hist EXCEPT ![r] =
                                 [@ EXCEPT !.events = Append(@, "jwt"),
                                           !.auth_reads = @ + 1,
                                           !.rejections = @ + 1,
                                           !.mints = @ + (IF fallback THEN 1 ELSE 0),
                                           !.fallbacks = @ + (IF fallback THEN 1 ELSE 0)]]
                   /\ pc' = [pc EXCEPT ![r] = "out"]
                   /\ at' = [at EXCEPT ![r] = ReturnTo(at[r] - 1)]
                   /\ exc' = exc
              ELSE /\ exc' = [exc EXCEPT ![r] =
                                Outcome("unhandled", 0, "", JNull, JNull, result.message, Whole(0))]
                   /\ hist' = [hist EXCEPT ![r] = [@ EXCEPT !.events = Append(@, "jwt"),
                                                            !.auth_reads = @ + 1]]
                   /\ pc' = [pc EXCEPT ![r] = "raise"]
                   /\ at' = [at EXCEPT ![r] = RaiseTo(at[r] - 1)]
                   /\ UNCHANGED <<sink, uuids, resp>>
    /\ UNCHANGED <<config, served, req, cx, state_cid, state_user, dsp, log_cid>>

-----------------------------------------------------------------------------
(* CORSMiddleware as main.py configures it: every origin, method and header *)

\* a pre-flight request is answered by the middleware itself
CorsPreflight(r) ==
    /\ pc[r] = "in"
    /\ StageAt(r) = "cors"
    /\ req[r].method = "OPTIONS" /\ req[r].preflight
    /\ resp' = [resp EXCEPT ![r] =
                  StarletteResponse(200, JStr("OK"),
                                    << <<"access-control-allow-origin", "*">> >>,
                                    "text/plain; charset=utf-8")]
    /\ pc' = [pc EXCEPT ![r] = "out"]
    /\ at' = [at EXCEPT ![r] = ReturnTo(at[r] - 1)]
    /\ hist' = [hist EXCEPT ![r] = Event(r, "cors")]
    /\ UNCHANGED <<config, served, uuids, req, cx, state_cid, state_user, dsp, log_cid, exc,
                   sink>>

\* any other request is passed on
CorsPass(r) ==
    /\ pc[r] = "in"
    /\ StageAt(r) = "cors"
    /\ ~(req[r].method = "OPTIONS" /\ req[r].preflight)
    /\ ChildContext(r, cx[Task(r)][at[r]])
    /\ hist' = [hist EXCEPT ![r] = Event(r, "cors")]
    /\ CallNext(r)
    /\ UNCHANGED <<config, served, uuids, req, state_cid, state_user, dsp, log_cid, exc,
                   resp, sink>>

-----------------------------------------------------------------------------
(* The application: router, dependencies and route handler *)

\* the handler returns: FastAPI serialises the payload into a response
HandlerReturn(r) ==
    /\ pc[r] = "in"
    /\ at[r] = App
    /\ \E o \in Traffic.returns :
         resp' = [resp EXCEPT ![r] = [status |-> o.status,
                                      headers |-> InitHeaders(o.headers, o.val, o.ctype),
                                      body |-> o.val, stream |-> o.stream]]
    /\ hist' = [hist EXCEPT ![r] = [@ EXCEPT !.handler_calls = @ + 1,
                                             !.events = Append(@, "handler")]]
    /\ pc' = [pc EXCEPT ![r] = "out"]
    /\ at' = [at EXCEPT ![r] = ReturnTo(Len(Chain))]
    /\ UNCHANGED <<config, served, uuids, req, cx, state_cid, state_user, dsp, log_cid, exc,
                   sink>>

\* the handler raises: ExceptionMiddleware has handlers for HTTPException,
\* RequestValidationError and AppException; anything else leaves the chain
HandlerRaise(r) ==
    /\ pc[r] = "in"
    /\ at[r] = App
    /\ \E o \in Traffic.raises :
         /\ exc' = [exc EXCEPT ![r] = o]
         /\ IF o.kind = "unhandled"
            THEN /\ pc' = [pc EXCEPT ![r] = "raise"]
                 /\ at' = [at EXCEPT ![r] = RaiseTo(Len(Chain))]
            ELSE /\ pc' = [pc EXCEPT ![r] = "respond"]
                 /\ at' = at
         /\ hist' = [hist EXCEPT ![r] = [@ EXCEPT !.handler_calls = @ + 1,
                                                  !.raised = o,
                                                  !.events = Append(@, "handler")]]
    /\ UNCHANGED <<config, served, uuids, req, cx, state_cid, state_user, dsp, log_cid, resp,
                   sink>>

-----------------------------------------------------------------------------
(* core/exceptions.py: the error responder *)

\* _error_response, lines 33-45: the id of request.state, else the ambient
\* one, else a new one
ErrorCid(scid, ctxval, n) ==
    IF StrTruthy(scid) THEN scid
    ELSE IF StrTruthy(get_correlation_id(ctxval, PYNONE))
         THEN get_correlation_id(ctxval, PYNONE)
         ELSE new_correlation_id(n + 1)
ErrorFallback(scid, ctxval) ==
    ~StrTruthy(scid) /\ ~StrTruthy(get_correlation_id(ctxval, PYNONE))

\* an error response that is the text of the error instead of the envelope
_error_response_plain(message, status_code, payload, request_cid, ctxval, n) ==
    StarletteResponse(status_code, message, <<>>, "text/plain")

\* _error_response, lines 33-50: the id is resolved, the envelope built
_error_response(message, status_code, payload, request_cid, ctxval, n) ==
    LET content == << <<"error", message>>,
                      <<"correlation_id", JStr(ErrorCid(request_cid, ctxval, n))>> >>
    IN  JSONResponse(status_code,
                     IF Truthy(payload) THEN JMap(Append(content, <<"details", payload>>))
                     ELSE JMap(content),
                     <<>>)

\* what the three handlers of ExceptionMiddleware share: the record is logged,
\* the response built and handed back to the chain
Respond(r, record, message, status_code, payload) ==
    LET fallback == ErrorFallback(state_cid[r], cx[Task(r)][at[r]])
        error == FormatRecord("app.core.exceptions", "ERROR",
                     "Correlation ID not found in error response - CorrelationIdMiddleware may not be running first!",
                     JMap(<< <<"path", JStr(req[r].path)>> >>),
                     "", cx[Task(r)][at[r]], formatter_pii)
    IN  /\ sink' = [sink EXCEPT ![r] = IF fallback THEN @ \o <<record, error>>
                                       ELSE Append(@, record)]
        /\ uuids' = IF fallback THEN uuids + 1 ELSE uuids
        /\ resp' = [resp EXCEPT ![r] =
                      _error_response(message, status_code, payload, state_cid[r],
                                      cx[Task(r)][at[r]], uuids)]
        /\ hist' = [hist EXCEPT ![r] =
                      [@ EXCEPT !.responders = @ + 1,
                                !.events = Append(@, "responder"),
                                !.mints = @ + (IF fallback THEN 1 ELSE 0),
                                !.fallbacks = @ + (IF fallback THEN 1 ELSE 0)]]

\* the message of an HTTP error: the first truthy of message, detail, error
HttpMessage(detail_payload) ==
    IF Truthy(MapGet(detail_payload, "message")) THEN MapGet(detail_payload, "message")
    ELSE IF Truthy(MapGet(detail_payload, "detail")) THEN MapGet(detail_payload, "detail")
    ELSE IF Truthy(MapGet(detail_payload, "error")) THEN MapGet(detail_payload, "error")
    ELSE JStr("HTTP error")

\* the detail of an HTTP error as a mapping with the path, lines 56-57
DetailPayload(detail, path) ==
    MapSet(IF detail.t = "map" THEN detail ELSE JMap(<< <<"detail", detail>> >>),
           "path", JStr(path))

\* http_exception_handler, lines 55-66
http_exception_handler(r) ==
    /\ pc[r] = "respond"
    /\ exc[r].kind = "http"
    /\ LET detail_payload == DetailPayload(exc[r].val, req[r].path)
           scrubbed_detail == scrub_pii(detail_payload, pii_fields)
           record == FormatRecord("app.core.exceptions", "WARNING", "Handled HTTP exception",
                         JMap(<< <<"status_code", JNum(exc[r].status)>>,
                                 <<"detail", scrubbed_detail>> >>),
                         "", cx[Task(r)][at[r]], formatter_pii)
       IN  Respond(r, record, HttpMessage(detail_payload), exc[r].status, scrubbed_detail)
    /\ pc' = [pc EXCEPT ![r] = "out"]
    /\ at' = [at EXCEPT ![r] = ReturnTo(Len(Chain))]
    /\ UNCHANGED <<config, served, req, cx, state_cid, state_user, dsp, log_cid, exc>>

\* validation_exception_handler, lines 69-73. The errors go into the content
\* of the JSONResponse as exc.errors() gives them: when json.dumps refuses
\* them (a bytes input) the handler raises TypeError in place of returning a
\* response, and the record, which the formatter cannot serialise either, is
\* dropped by the logging handler
validation_exception_handler(r) ==
    /\ pc[r] = "respond"
    /\ exc[r].kind = "validation"
    /\ LET errors == exc[r].val
           scrubbed_body == scrub_pii(exc[r].aux, pii_fields)
           record == FormatRecord("app.core.exceptions", "WARNING", "Validation error",
                         JMap(<< <<"errors", errors>>, <<"body", scrubbed_body>> >>),
                         "", cx[Task(r)][at[r]], formatter_pii)
       IN  IF Serialisable(errors)
           THEN /\ Respond(r, record, JStr("Payload validation failed"), 422,
                           JMap(<< <<"errors", errors>> >>))
                /\ pc' = [pc EXCEPT ![r] = "out"]
                /\ at' = [at EXCEPT ![r] = ReturnTo(Len(Chain))]
                /\ exc' = exc
           ELSE /\ exc' = [exc EXCEPT ![r] =
                             Outcome("unhandled", 0, "", JNull, JNull,
                                     "TypeError: Object of type bytes is not JSON serializable",
                                     Whole(0))]
                /\ hist' = [hist EXCEPT ![r] = Event(r, "responder")]
                /\ pc' = [pc EXCEPT ![r] = "raise"]
                /\ at' = [at EXCEPT ![r] = RaiseTo(Len(Chain))]
                /\ UNCHANGED <<sink, uuids, resp>>
    /\ UNCHANGED <<config, served, req, cx, state_cid, state_user, dsp, log_cid>>

\* app_exception_handler, lines 76-82
app_exception_handler(r) ==
    /\ pc[r] = "respond"
    /\ exc[r].kind = "app"
    /\ LET scrubbed_payload == scrub_pii(exc[r].val, pii_fields)
           record == FormatRecord("app.core.exceptions", "ERROR", "Application exception raised",
                         JMap(<< <<"status_code", JNum(exc[r].status)>>,
                                 <<"payload", scrubbed_payload>>,
                                 <<"path", JStr(req[r].path)>> >>),
                         "", cx[Task(r)][at[r]], formatter_pii)
       IN  Respond(r, record, JStr(exc[r].text), exc[r].status, scrubbed_payload)
    /\ pc' = [pc EXCEPT ![r] = "out"]
    /\ at' = [at EXCEPT ![r] = ReturnTo(Len(Chain))]
    /\ UNCHANGED <<config, served, req, cx, state_cid, state_user, dsp, log_cid, exc>>

\* a message that carries the text of the exception
UnhandledMessage_leaky(text) == JStr(text)

\* the message unhandled_exception_handler gives for an exception (line 87)
UnhandledMessage(text) == JStr("Internal server error")

\* unhandled_exception_handler, lines 85-87, run by ServerErrorMiddleware: it
\* is outside every added middleware, and sends the response itself
unhandled_exception_handler(r) ==
    /\ pc[r] = "raise"
    /\ at[r] = 0
    /\ LET record == FormatRecord("app.core.exceptions", "ERROR", "Unhandled exception occurred",
                         JMap(<< <<"path", JStr(req[r].path)>> >>),
                         exc[r].text, cx[Task(r)][1], formatter_pii)
           fallback == ErrorFallback(state_cid[r], cx[Task(r)][1])
           error == FormatRecord("app.core.exceptions", "ERROR",
                        "Correlation ID not found in error response - CorrelationIdMiddleware may not be running first!",
                        JMap(<< <<"path", JStr(req[r].path)>> >>),
                        "", cx[Task(r)][1], formatter_pii)
       IN  /\ sink' = [sink EXCEPT ![r] = IF fallback THEN @ \o <<record, error>>
                                          ELSE Append(@, record)]
           /\ uuids' = IF fallback THEN uuids + 1 ELSE uuids
           /\ resp' = [resp EXCEPT ![r] =
                         _error_response(UnhandledMessage(exc[r].text), 500, JNull,
                                         state_cid[r], cx[Task(r)][1], uuids)]
           /\ hist' = [hist EXCEPT ![r] =
                         [@ EXCEPT !.responders = @ + 1,
                                   !.responses = @ + 1,
                                   !.events = Append(@, "responder"),
                                   !.mints = @ + (IF fallback THEN 1 ELSE 0),
                                   !.fallbacks = @ + (IF fallback THEN 1 ELSE 0)]]
    /\ pc' = [pc EXCEPT ![r] = "done"]
    /\ UNCHANGED <<config, served, at, req, cx, state_cid, state_user, dsp, log_cid, exc>>

-----------------------------------------------------------------------------
(* middlewares/correlation.py, response side *)

\* a list without the page of the interactive documentation
skip_paths_without_docs == {"/redoc", "/openapi.json", "/favicon.ico", "/robots.txt"}

\* skip_paths, line 60
skip_paths == {"/docs", "/redoc", "/openapi.json", "/favicon.ico", "/robots.txt"}

\* content_type.startswith("application/json")
IsJsonType(content_type) ==
    content_type \in {"application/json", "application/json; charset=utf-8"}

\* the finally block of dispatch, lines 51-53
Release(r) ==
    /\ cx' = [cx EXCEPT ![Task(r)][at[r]] = reset_correlation_id(cx[Task(r)][at[r]], dsp[r].token)]
    /\ dsp' = [dsp EXCEPT ![r].in_try = FALSE]

\* dispatch, lines 51-66 and 126: call_next returned a response; the context is
\* released, the header set, and the body is read when it is to be rewritten
CorrelationOut(r) ==
    /\ pc[r] = "out"
    /\ StageAt(r) = "correlation"
    /\ Release(r)
    /\ resp' = [resp EXCEPT ![r].headers = HSet(@, CORRELATION_HEADER, dsp[r].correlation_id)]
    /\ hist' = [hist EXCEPT ![r] = [@ EXCEPT !.releases = @ + 1, !.origin = resp[r]]]
    /\ IF req[r].path \notin skip_paths
          /\ IsJsonType(HGet(resp[r].headers, "content-type", ""))
       THEN /\ pc' = [pc EXCEPT ![r] = "rewrite"]
            /\ at' = at
       ELSE /\ pc' = pc
            /\ at' = [at EXCEPT ![r] = ReturnTo(at[r] - 1)]
    /\ UNCHANGED <<config, served, uuids, req, state_cid, state_user, log_cid, exc, sink>>

\* an injection that sets the id whether or not the mapping has one
Injected_overwrite(response_data, correlation_id) ==
    IF response_data.t = "map"
    THEN MapSet(response_data, "correlation_id", JStr(correlation_id))
    ELSE JMap(<< <<"data", response_data>>, <<"correlation_id", JStr(correlation_id)>> >>)

\* the response data with the correlation id added, lines 80-89
Injected(response_data, correlation_id) ==
    IF response_data.t = "map"
    THEN IF HasKey(response_data, "correlation_id") THEN response_data
         ELSE MapSet(response_data, "correlation_id", JStr(correlation_id))
    ELSE JMap(<< <<"data", response_data>>, <<"correlation_id", JStr(correlation_id)>> >>)

\* the bytes of the first k of n chunks of a body
Chunks(body, k, n) == IF k = n THEN body ELSE [t |-> "prefix", v |-> body.v]

\* dispatch, lines 67-126: the body stream is read until it ends or raises;
\* the body is parsed and re-emitted with the id, or reconstructed from the
\* chunks read
CorrelationRewrite(r) ==
    /\ pc[r] = "rewrite"
    /\ LET k == resp[r].stream.readable
           body == Chunks(resp[r].body, k, resp[r].stream.chunks)
           content_type == HGet(resp[r].headers, "content-type", "")
           headers == HPop(HDict(resp[r].headers), "content-length")
           renders == JParses(body) /\ Serialisable(JLoads(body))
           debug(text) ==
               FormatRecord("app.middlewares.correlation", "DEBUG",
                   "Could not inject correlation ID into response body",
                   JMap(<< <<"error", JStr(text)>>,
                           <<"path", JStr(req[r].path)>>,
                           <<"response_type", JStr("_StreamingResponse")>> >>),
                   "", cx[Task(r)][at[r]], formatter_pii)
           outcome == IF resp[r].stream.fails THEN "failed"
                      ELSE IF k = 0 THEN "empty"
                      ELSE IF renders THEN "injected"
                      ELSE IF JParses(body) THEN "unrendered"
                      ELSE "invalid"
       IN  /\ hist' = [hist EXCEPT ![r].rewrite = outcome]
           /\ IF outcome = "failed"
              THEN Log(r, debug("stream error"))
              ELSE IF outcome = "unrendered"
              THEN Log(r, debug("Out of range float values are not JSON compliant"))
              ELSE sink' = sink
           /\ resp' = [resp EXCEPT ![r] =
                         CASE outcome = "failed" ->
                                IF k > 0
                                THEN StarletteResponse(resp[r].status, body, headers,
                                                       content_type)
                                ELSE [@ EXCEPT !.body = JStr(""), !.stream = Whole(0)]
                           [] outcome = "empty" -> @
                           [] outcome = "injected" ->
                                JSONResponse(resp[r].status,
                                    Injected(JLoads(body), dsp[r].correlation_id), headers)
                           [] OTHER ->
                                StarletteResponse(resp[r].status, body, headers, content_type)]
    /\ pc' = [pc EXCEPT ![r] = "out"]
    /\ at' = [at EXCEPT ![r] = ReturnTo(at[r] - 1)]
    /\ UNCHANGED <<config, served, uuids, req, cx, state_cid, state_user, dsp, log_cid, exc>>

\* dispatch, lines 49-53: call_next raised; the finally block runs and the
\* exception goes on to the caller
CorrelationRaise(r) ==
    /\ pc[r] = "raise"
    /\ StageAt(r) = "correlation"
    /\ Release(r)
    /\ hist' = [hist EXCEPT ![r].releases = @ + 1]
    /\ at' = [at EXCEPT ![r] = RaiseTo(at[r] - 1)]
    /\ UNCHANGED <<config, served, uuids, pc, req, state_cid, state_user, log_cid, exc, resp,
                   sink>>

-----------------------------------------------------------------------------
(* The server around the chain *)

\* the response leaves the outermost middleware and is sent to the client
Send(r) ==
    /\ pc[r] = "out"
    /\ at[r] = 0
    /\ pc' = [pc EXCEPT ![r] = "done"]
    /\ hist' = [hist EXCEPT ![r].responses = @ + 1]
    /\ UNCHANGED <<config, served, uuids, at, req, cx, state_cid, state_user, dsp, log_cid,
                   exc, resp, sink>>

\* the task of the request is cancelled while it waits (in call_next or on the
\* body stream): CancelledError unwinds the chain, running the finally block of
\* the correlation stage when the request is inside its try; no response is
\* sent and the request's objects are dropped
Cancel(r) ==
    /\ pc[r] \in {"in", "out", "raise", "respond", "rewrite"}
    /\ at[r] > 0
    /\ IF dsp[r].in_try
       THEN /\ cx' = [cx EXCEPT ![Task(r)][1] =
                        IF Chain[1] = "correlation"
                        THEN reset_correlation_id(cx[Task(r)][1], dsp[r].token) ELSE @]
            /\ dsp' = [dsp EXCEPT ![r].in_try = FALSE]
            /\ hist' = [hist EXCEPT ![r].releases = @ + 1]
       ELSE UNCHANGED <<cx, dsp, hist>>
    /\ pc' = [pc EXCEPT ![r] = "cancelled"]
    /\ exc' = [exc EXCEPT ![r] = NoOutcome]
    /\ resp' = [resp EXCEPT ![r] = NoResponse]
    /\ state_cid' = [state_cid EXCEPT ![r] = MISSING]
    /\ state_user' = [state_user EXCEPT ![r] = MISSING]
    /\ log_cid' = [log_cid EXCEPT ![r] = MISSING]
    /\ UNCHANGED <<config, served, uuids, at, req, sink>>

\* the worker is free again; its context is what the request left in it
Recycle(r) ==
    /\ pc[r] \in {"done", "cancelled"}
    /\ pc' = [pc EXCEPT ![r] = "idle"]
    /\ at' = [at EXCEPT ![r] = 0]
    /\ req' = [req EXCEPT ![r] = NoRequest]
    /\ cx' = [cx EXCEPT ![Task(r)] = [i \in Levels |-> cx[Task(r)][1]]]
    /\ state_cid' = [state_cid EXCEPT ![r] = MISSING]
    /\ state_user' = [state_user EXCEPT ![r] = MISSING]
    /\ dsp' = [dsp EXCEPT ![r] = NoDispatch]
    /\ log_cid' = [log_cid EXCEPT ![r] = MISSING]
    /\ exc' = [exc EXCEPT ![r] = NoOutcome]
    /\ resp' = [resp EXCEPT ![r] = NoResponse]
    /\ sink' = [sink EXCEPT ![r] = <<>>]
    /\ hist' = [hist EXCEPT ![r] = NoHist]
    /\ UNCHANGED <<config, served, uuids>>

\* the steps of the chain for a request that was accepted, up to the response
Process(r) ==
    \/ CorrelationIn(r)
    \/ LoggingIn(r)
    \/ JwtExempt(r)
    \/ JwtPass(r)
    \/ JwtReject(r)
    \/ CorsPreflight(r)
    \/ CorsPass(r)
    \/ HandlerReturn(r)
    \/ HandlerRaise(r)
    \/ http_exception_handler(r)
    \/ validation_exception_handler(r)
    \/ app_exception_handler(r)
    \/ unhandled_exception_handler(r)
    \/ LoggingOut(r)
    \/ CorrelationOut(r)
    \/ CorrelationRewrite(r)
    \/ CorrelationRaise(r)
    \/ Send(r)

Next ==
    \E r \in Reqs :
        \/ Enter(r)
        \/ Process(r)
        \/ Cancel(r)
        \/ Recycle(r)

Spec == Init /\ [][Next]_vars

\* the server processing two requests at the same time
InitConcurrent ==
    /\ active = Reqs
    /\ workload = "concurrent"
    /\ unit = NoCall
    /\ boot = NoBoot
    /\ svc = NoSvc
    /\ pii_fields = {}
    /\ formatter_pii = pii_fields
    /\ exempt_paths = {}
    /\ jwt_cfg = [algorithm |-> "HS256", issuer |-> PYNONE, audience |-> PYNONE]
    /\ enclosing = MISSING
    /\ served = 0
    /\ uuids = 0
    /\ pc = [r \in Reqs |-> "idle"]
    /\ at = [r \in Reqs |-> 0]
    /\ req = [r \in Reqs |-> NoRequest]
    /\ cx = [r \in Reqs |-> [i \in Levels |-> enclosing]]
    /\ state_cid = [r \in Reqs |-> MISSING]
    /\ state_user = [r \in Reqs |-> MISSING]
    /\ dsp = [r \in Reqs |-> NoDispatch]
    /\ log_cid = [r \in Reqs |-> MISSING]
    /\ exc = [r \in Reqs |-> NoOutcome]
    /\ resp = [r \in Reqs |-> NoResponse]
    /\ sink = [r \in Reqs |-> <<>>]
    /\ hist = [r \in Reqs |-> NoHist]

SpecConcurrent == InitConcurrent /\ [][Next]_vars

\* the server with clients that stay connected
InitConnected ==
    /\ active = {"r1"}
    /\ workload = "connected"
    /\ unit = NoCall
    /\ boot = NoBoot
    /\ svc = NoSvc
    /\ pii_fields = {}
    /\ formatter_pii = pii_fields
    /\ exempt_paths = {}
    /\ jwt_cfg = [algorithm |-> "HS256", issuer |-> PYNONE, audience |-> PYNONE]
    /\ enclosing = MISSING
    /\ served = 0
    /\ uuids = 0
    /\ pc = [r \in Reqs |-> "idle"]
    /\ at = [r \in Reqs |-> 0]
    /\ req = [r \in Reqs |-> NoRequest]
    /\ cx = [r \in Reqs |-> [i \in Levels |-> enclosing]]
    /\ state_cid = [r \in Reqs |-> MISSING]
    /\ state_user = [r \in Reqs |-> MISSING]
    /\ dsp = [r \in Reqs |-> NoDispatch]
    /\ log_cid = [r \in Reqs |-> MISSING]
    /\ exc = [r \in Reqs |-> NoOutcome]
    /\ resp = [r \in Reqs |-> NoResponse]
    /\ sink = [r \in Reqs |-> <<>>]
    /\ hist = [r \in Reqs |-> NoHist]

\* the requests that are not cancelled: the client stays connected
NextLive ==
    \E r \in Reqs :
        \/ Enter(r)
        \/ Process(r)
        \/ Recycle(r)

\* the event loop runs every task that is ready, and a route handler returns
\* or raises: a request that can take a step of the chain takes one
SpecLive == InitConnected /\ [][NextLive]_vars /\ \A r \in Reqs : WF_vars(Process(r))


-----------------------------------------------------------------------------
(* The functions of utils/pii.py, core/config.py and services/auth/jwt.py
   called on their own *)

\* values of the PII_FIELDS setting, as the items between its commas: empty,
\* blank, blank items only, one name, a capitalised name and a blank item,
\* two names
PiiSettings ==
    {<<"">>, <<" ">>, <<"", " ">>, <<"email">>, <<"Email", " ">>, <<"name", "message">>}

\* keys of the mappings handed to the redaction
UnitKeys == {"Email", "name"}

\* scalars: a text that is not JSON, a number, None
UnitLeaves == {JStr("a@b.com"), JNum(1), JNull}

\* the values one constructor away from the values of a set: a mapping, a
\* list, a text that parses to the value, the text json.dumps gives for it
Built(S) ==
    S \cup {JMap(<< <<k, x>> >>) : k \in UnitKeys, x \in S}
      \cup {JList(<<x>>) : x \in S}
      \cup {JText(x) : x \in S}
      \cup {JDumps(x) : x \in S}

\* the values handed to the redaction: two constructors deep, and mappings
\* with a matching and a non-matching key
UnitValues ==
    Built(Built(UnitLeaves))
    \cup {JMap(<< <<"Email", JStr("a@b.com")>>, <<"name", x>> >>) :
             x \in {JStr("x"), JText(JMap(<< <<"email", JStr("a@b.com")>> >>)),
                     JText(JText(JList(<<JNum(1), JNum(2)>>)))}}

\* the pipeline is not running
pipeline == <<pii_fields, formatter_pii, exempt_paths, jwt_cfg, enclosing, active, workload,
              boot, svc, served, uuids, pc, at, req, cx, state_cid, state_user, dsp, log_cid, exc,
              resp, sink, hist>>

\* scrub_pii(x, settings.pii_fields_list)
CallScrubPii ==
    /\ \E x \in UnitValues, items \in PiiSettings :
         unit' = Call("scrub_pii", <<x, pii_fields_list(items)>>,
                      scrub_pii(x, Range(pii_fields_list(items))), FALSE)
    /\ UNCHANGED pipeline

\* scrub_pii applied to the result of the call before, with the same fields
CallScrubPiiAgain ==
    /\ unit.fn = "scrub_pii"
    /\ unit' = Call("scrub_pii", <<unit.result, unit.args[2]>>,
                    scrub_pii(unit.result, Range(unit.args[2])), TRUE)
    /\ UNCHANGED pipeline

\* _connect_to_opensearch, opensearch_client.py line 33: the default of
\* max_attempts, and line 37: delay_base, in milliseconds
max_attempts == 5
delay_base == 500

\* the outcome of the k-th connection attempt, given the outcomes of the
\* attempts as a sequence (the service stays as it was at the last of them)
AttemptAt(outcomes, k) == IF k \in DOMAIN outcomes THEN outcomes[k] ELSE outcomes[Len(outcomes)]

\* the while loop of lines 39-60 from the increment of attempt on: the
\* client of a successful attempt is returned; a failure is raised when
\* attempt >= max_attempts, otherwise the loop sleeps
\* delay_base * 2^(attempt - 1) and goes round
RECURSIVE connect_loop(_, _, _, _)
connect_loop(outcomes, limit, attempt, sleeps) ==
    IF AttemptAt(outcomes, attempt) = "ok"
    THEN [raised |-> "none", attempts |-> attempt, sleeps |-> sleeps]
    ELSE IF attempt >= limit
    THEN [raised |-> AttemptAt(outcomes, attempt), attempts |-> attempt, sleeps |-> sleeps]
    ELSE connect_loop(outcomes, limit, attempt + 1,
                      Append(sleeps, delay_base * 2^(attempt - 1)))

\* a loop that gives up when attempt > max_attempts
_connect_to_opensearch_one_more(outcomes, limit) == connect_loop(outcomes, limit + 1, 1, <<>>)

\* _connect_to_opensearch(host, settings, max_attempts=limit), lines 33-60
_connect_to_opensearch(outcomes, limit) == connect_loop(outcomes, limit, 1, <<>>)

\* init_client, lines 63-98: the primary host, then the HTTP fallback when
\* the host is https and the failure an OpenSearchConnectionError; the client
\* is kept when one of them connected
init_client(use_ssl, primary, fallback) ==
    LET first == _connect_to_opensearch(primary, max_attempts)
        second == _connect_to_opensearch(fallback, max_attempts)
    IN  IF first.raised = "none"
        THEN [client |-> "primary", attempts |-> first.attempts, sleeps |-> first.sleeps]
        ELSE IF first.raised = "ConnectionError" /\ use_ssl
        THEN [client |-> IF second.raised = "none" THEN "fallback" ELSE "none",
              attempts |-> first.attempts + second.attempts,
              sleeps |-> first.sleeps \o second.sleeps]
        ELSE [client |-> "none", attempts |-> first.attempts, sleeps |-> first.sleeps]

\* the outcomes of the attempts on a host: it answers at the k-th attempt, or
\* never, with the last failure a connection error or another exception
HostBehaviours ==
    {[i \in 1..max_attempts |-> IF i < k THEN "ConnectionError" ELSE "ok"] : k \in 1..max_attempts}
    \cup {[i \in 1..max_attempts |-> IF i < k THEN "Exception" ELSE "ConnectionError"] :
             k \in 1..max_attempts}
    \cup {[i \in 1..max_attempts |-> IF i < k THEN "ConnectionError" ELSE "Exception"] :
             k \in 1..max_attempts}

\* _connect_to_opensearch called with every sequence of outcomes of up to
\* max_attempts attempts and every limit from 1 to max_attempts
CallConnect ==
    /\ \E limit \in 1..max_attempts :
         \E outcomes \in [1..limit -> {"ok", "ConnectionError", "Exception"}] :
            unit' = Call("_connect_to_opensearch", <<outcomes, limit>>,
                         _connect_to_opensearch(outcomes, limit), FALSE)
    /\ UNCHANGED pipeline

\* init_client called with an http or https host
CallInitClient ==
    /\ \E use_ssl \in BOOLEAN, primary \in HostBehaviours, fallback \in HostBehaviours :
         unit' = Call("init_client", <<use_ssl, primary, fallback>>,
                      init_client(use_ssl, primary, fallback), FALSE)
    /\ UNCHANGED pipeline

\* the routers built with dependencies=[Depends(rate_limiter)]: users.py
\* line 13, search.py line 8, cache.py line 8, messages.py line 15
RateLimitedRouters == {"users", "search", "cache", "messages"}

\* main.py lines 55-60: FastAPILimiter.init is awaited with the Redis handle
\* when get_client returns it; the RuntimeError get_client raises while the
\* handle is unset is caught and logged, and the limiter is left as imported,
\* without a Redis client
FastAPILimiter_init(redis_handle) ==
    IF redis_handle = 0
    THEN [redis |-> 0, log |-> <<"Rate limiting disabled - Redis connection unavailable">>]
    ELSE [redis |-> redis_handle, log |-> <<>>]

\* rate_limiter, dependencies/rate_limit.py line 151: the RateLimiter of
\* fastapi-limiter, which raises a plain Exception while FastAPILimiter has
\* no Redis client, and otherwise counts the request and lets it through
rate_limiter(limiter_redis) ==
    IF limiter_redis = 0
    THEN "Exception: You must call FastAPILimiter.init in startup event of fastapi!"
    ELSE "none"

\* a request to a route of a rate-limited router: the dependencies of the
\* router are solved before the handler is called, and an exception of one of
\* them is the outcome of the request
RateLimitedRoute(router, limiter_redis) ==
    LET raised == rate_limiter(limiter_redis)
    IN  [router |-> router, raised |-> raised, handler |-> raised = "none",
         status |-> IF raised = "none" THEN 200 ELSE 500]

\* the application started with Redis reachable (handle 1) or not (handle
\* 0), then a request to each of the rate-limited routers
CallRateLimited ==
    /\ \E redis_handle \in {0, 1}, router \in RateLimitedRouters :
         unit' = Call("rate_limited_route", <<redis_handle, router>>,
                      RateLimitedRoute(router, FastAPILimiter_init(redis_handle).redis), FALSE)
    /\ UNCHANGED pipeline

\* Authorization headers handed to extract_token: absent, empty, a scheme
\* alone, a scheme and a space, another scheme, a text starting with a space,
\* the bearer scheme in three spellings, a token that holds spaces, two
\* spaces after the scheme
UnitAuthHeaders ==
    {NoAuth, AuthText(<<>>), AuthText(<<"Bearer">>), AuthText(<<"Bearer", " ">>),
     AuthText(<<"Basic", " ", "abc">>), AuthText(<<" ", "Bearer", " ", "T_valid">>),
     AuthText(<<" ">>), AuthText(<<"T_valid">>),
     AuthText(<<"Bearer", " ", "T_valid">>), AuthText(<<"bearer", " ", "T_valid">>),
     AuthText(<<"BEARER", " ", "T_badsig">>),
     AuthText(<<"Bearer", " ", "T_valid", " ", "T_badsig">>),
     AuthText(<<"Bearer", " ", " ", "T_valid">>), AuthText(<<"Bearer", " ", " ">>),
     AuthText(<<"Bearer", " ", "T_valid", " ">>)}

\* extract_token(auth_header)
CallExtractToken ==
    /\ \E a \in UnitAuthHeaders :
         unit' = Call("extract_token", <<a>>, extract_token(a), FALSE)
    /\ UNCHANGED pipeline

InitUnit ==
    /\ active = {}
    /\ workload = "sequential"
    /\ unit = NoCall
    /\ boot = NoBoot
    /\ svc = NoSvc
    /\ pii_fields = {}
    /\ formatter_pii = pii_fields
    /\ exempt_paths = {}
    /\ jwt_cfg = [algorithm |-> "HS256", issuer |-> PYNONE, audience |-> PYNONE]
    /\ enclosing = MISSING
    /\ served = 0
    /\ uuids = 0
    /\ pc = [r \in Reqs |-> "idle"]
    /\ at = [r \in Reqs |-> 0]
    /\ req = [r \in Reqs |-> NoRequest]
    /\ cx = [r \in Reqs |-> [i \in Levels |-> enclosing]]
    /\ state_cid = [r \in Reqs |-> MISSING]
    /\ state_user = [r \in Reqs |-> MISSING]
    /\ dsp = [r \in Reqs |-> NoDispatch]
    /\ log_cid = [r \in Reqs |-> MISSING]
    /\ exc = [r \in Reqs |-> NoOutcome]
    /\ resp = [r \in Reqs |-> NoResponse]
    /\ sink = [r \in Reqs |-> <<>>]
    /\ hist = [r \in Reqs |-> NoHist]

NextUnit ==
    \/ CallScrubPii
    \/ CallScrubPiiAgain
    \/ CallExtractToken
    \/ CallConnect
    \/ CallInitClient
    \/ CallRateLimited

SpecUnit == InitUnit /\ [][NextUnit]_vars

-----------------------------------------------------------------------------
(* app/main.py: the lifespan of the application, up to the first request *)

\* what load_secrets_into_env does: it returns secrets, returns an empty
\* mapping, or raises
SecretsOutcomes == {"loaded", "empty", "raised"}

\* the order of the calls in log_dependency_status and in lifespan
ServiceOrder == <<"mysql", "redis", "opensearch", "rabbitmq">>

\* the environment the process is started with (.env loaded by load_dotenv,
\* main.py line 24): nothing of interest set, the redaction list set, or the
\* redaction list and the JWT settings set
Environments ==
    {NoEnviron,
     [NoEnviron EXCEPT !.PII_FIELDS = << <<"email">> >>],
     [NoEnviron EXCEPT !.PII_FIELDS = << <<"email">> >>, !.JWT_SECRET = <<"env-secret">>,
                       !.JWT_AUDIENCE = <<"api">>]}

\* the payload of the secret, when it is not empty: a database DSN only, a
\* redaction list, or the JWT secret and audience
SecretPayloads ==
    {[NoEnviron EXCEPT !.MYSQL_DSN = <<"mysql+aiomysql://app@db/app">>],
     [NoEnviron EXCEPT !.PII_FIELDS = << <<"email", "phone">> >>],
     [NoEnviron EXCEPT !.JWT_SECRET = <<"vault-secret">>, !.JWT_AUDIENCE = <<"api">>]}

\* lifespan, lines 32-63, one step at a time: the secrets (lines 35-44), then
\* log_dependency_status (lines 47 and 144-153: the list of the four
\* check_status calls is built, then awaited with gather), then the four init
\* calls, each of which keeps its handle only when it connected, and the rate
\* limiter (lines 50-60), then 'Application startup complete' (line 62). An
\* exception that leaves the lifespan aborts startup.
lifespan ==
    /\ boot.pc \in {"secrets", "status", "init"}
    /\ IF boot.pc = "secrets"
       THEN \E o \in SecretsOutcomes :
              \E secrets \in IF o = "loaded" THEN SecretPayloads ELSE {NoEnviron} :
                 LET environ == setdefault(boot.environ, secrets)
                 IN  /\ boot' = [boot EXCEPT !.pc = "status", !.secrets = o,
                                   !.environ = environ,
                                   !.settings = IF o = "loaded" THEN get_settings(environ) ELSE @,
                                   !.log = IF o = "raised"
                                           THEN Append(@, "Failed to load AWS secrets") ELSE @]
                     /\ formatter_pii' = IF o = "loaded" THEN get_settings(environ).pii
                                         ELSE formatter_pii
       ELSE IF boot.pc = "status"
       THEN /\ formatter_pii' = formatter_pii
            /\ LET missing == {i \in DOMAIN ServiceOrder :
                                  check_status(ServiceOrder[i], boot.up).raised # "none"}
               IN  IF missing # {}
                   THEN boot' = [boot EXCEPT !.pc = "failed",
                                   !.log = Append(@, "AttributeError: module has no attribute 'check_status'")]
                   ELSE boot' = [boot EXCEPT !.pc = "init",
                                   !.probes = [i \in DOMAIN ServiceOrder |->
                                                 check_status(ServiceOrder[i], boot.up).value[1]]]
       ELSE /\ formatter_pii' = formatter_pii
            /\ boot' = [boot EXCEPT !.pc = "serving",
                       !.handles = boot.up,
                       !.limiter = "redis" \in boot.up,
                       !.log = (IF "redis" \in boot.up THEN @
                                ELSE Append(@, "Rate limiting disabled - Redis connection unavailable"))
                               \o <<"Application startup complete">>]
    /\ UNCHANGED <<unit, svc, pii_fields, exempt_paths, jwt_cfg, enclosing, active,
                   workload, served, uuids, pc, at, req, cx, state_cid, state_user, dsp,
                   log_cid, exc, resp, sink, hist>>

\* module.check_status(settings) called on its own
CallCheckStatus ==
    /\ \E c \in Collaborators :
         unit' = Call("check_status", <<c>>, check_status(c, boot.up), FALSE)
    /\ UNCHANGED pipeline

\* the application is imported and started with any of the four services
\* reachable or not: the error responder (main.py line 91), the formatter
\* (line 27) and the settings of services/auth/jwt.py (line 10) are those of
\* the environment at import
InitStartup ==
    /\ boot \in {[NoBoot EXCEPT !.pc = "secrets", !.up = up, !.environ = environ,
                                !.settings = get_settings(environ),
                                !.imported = get_settings(environ)] :
                    up \in SUBSET Collaborators, environ \in Environments}
    /\ svc = NoSvc
    /\ active = {}
    /\ workload = "sequential"
    /\ unit = NoCall
    /\ pii_fields = boot.imported.pii
    /\ formatter_pii = pii_fields
    /\ exempt_paths = {}
    /\ jwt_cfg = [algorithm |-> boot.imported.algorithm, issuer |-> boot.imported.issuer,
                  audience |-> boot.imported.audience]
    /\ enclosing = MISSING
    /\ served = 0
    /\ uuids = 0
    /\ pc = [r \in Reqs |-> "idle"]
    /\ at = [r \in Reqs |-> 0]
    /\ req = [r \in Reqs |-> NoRequest]
    /\ cx = [r \in Reqs |-> [i \in Levels |-> enclosing]]
    /\ state_cid = [r \in Reqs |-> MISSING]
    /\ state_user = [r \in Reqs |-> MISSING]
    /\ dsp = [r \in Reqs |-> NoDispatch]
    /\ log_cid = [r \in Reqs |-> MISSING]
    /\ exc = [r \in Reqs |-> NoOutcome]
    /\ resp = [r \in Reqs |-> NoResponse]
    /\ sink = [r \in Reqs |-> <<>>]
    /\ hist = [r \in Reqs |-> NoHist]

NextStartup ==
    \/ lifespan
    \/ CallCheckStatus

\* the server runs the lifespan to its yield before it accepts a request, and
\* the event loop runs every step of it that can be taken
SpecStartup == InitStartup /\ [][NextStartup]_vars /\ WF_vars(lifespan)

-----------------------------------------------------------------------------
(* services/database/mysql.py, services/cache/redis_cache.py,
   services/search/opensearch_client.py, services/messaging/connection.py:
   the module handles, init, shutdown and get_session *)

\* init calls started in a run
MaxCalls == 3

\* everything but the collaborator modules and the last call
application == <<pii_fields, formatter_pii, exempt_paths, jwt_cfg, enclosing, active, workload,
                 boot, served, uuids, pc, at, req, cx, state_cid, state_user, dsp, log_cid,
                 exc, resp, sink, hist>>

\* the modules whose init stores the handle before its first await:
\* init_engine (mysql.py lines 27-31: engine and session_factory, then
\* engine.begin) and init_cache (redis_cache.py lines 23-25: from_url, then
\* ping); init_connection (connection.py line 22) and init_client
\* (opensearch_client.py line 73) store the result of the await
StoresBeforeAwait == {"mysql", "redis"}

\* what a connection attempt does: it connects, fails with a connection
\* error, or fails with another exception
AttemptOutcomes == {"ok", "ConnectionError", "Exception"}

\* the module state with the handle of c set to h (for mysql the engine and
\* the session factory, lines 27-28 and 39-40)
WithHandle(v, c, h) ==
    [v EXCEPT !.handle[c] = h, !.factory = IF c = "mysql" THEN h ELSE @]

\* an init whose exceptions are not caught
Finish_uncaught(v, t, failed) ==
    [v EXCEPT !.task[t].pc = "idle", !.task[t].result = IF failed THEN "raised" ELSE "returned",
              !.task[t].failed = failed, !.last = <<"init", t>>,
              !.down = IF failed THEN @ ELSE @ \ {v.task[t].c}]

\* the init call of task t returns: every exception of the attempt is caught
\* by the except clause (mysql.py line 34, redis_cache.py line 27,
\* opensearch_client.py lines 76-96, connection.py line 24)
Finish(v, t, failed) ==
    [v EXCEPT !.task[t].pc = "idle", !.task[t].result = "returned",
              !.task[t].failed = failed, !.last = <<"init", t>>,
              !.down = IF failed THEN @ ELSE @ \ {v.task[t].c}]

\* the init function of a module, from its call to its first await: the
\* handle is tested; when it is set the call returns, otherwise the attempt
\* starts
InitStart(t) ==
    /\ t \in svc.tasks
    /\ svc.task[t].pc = "idle"
    /\ svc.calls < MaxCalls
    /\ \E c \in {svc.c}, ssl \in BOOLEAN :
         /\ ssl => c = "opensearch"
         /\ LET id == svc.made[c] + 1
                called == [svc EXCEPT !.calls = @ + 1,
                                      !.task[t] = [NoTask EXCEPT !.c = c, !.ssl = ssl,
                                                                 !.found = svc.handle[c]]]
            IN  IF svc.handle[c] # 0
                THEN svc' = Finish(called, t, FALSE)
                ELSE IF c \in StoresBeforeAwait
                THEN svc' = [WithHandle(called, c, id) EXCEPT
                               !.made[c] = id, !.task[t].pc = "connect",
                               !.task[t].conn = id, !.task[t].made = 1]
                ELSE svc' = [called EXCEPT !.task[t].pc = "connect"]
    /\ UNCHANGED <<unit, application>>

\* the init function resumed after its await. mysql and redis: the object was
\* stored before, it is connected now, or the handle is set to None. rabbitmq
\* and opensearch: the object the await returned is stored, or the handle is
\* set to None; init_client first retries over HTTP when the host was https
\* and the failure a connection error (lines 76-86).
InitResume(t) ==
    /\ t \in svc.tasks
    /\ svc.task[t].pc \in {"connect", "fallback"}
    /\ \E o \in AttemptOutcomes :
         LET c == svc.task[t].c
             id == svc.made[c] + 1
         IN  IF c \in StoresBeforeAwait
             THEN IF o = "ok"
                  THEN svc' = Finish([svc EXCEPT !.live[c] = @ \cup {svc.task[t].conn}], t, FALSE)
                  ELSE svc' = Finish(WithHandle(svc, c, 0), t, TRUE)
             ELSE IF o = "ok"
                  THEN svc' = Finish([WithHandle(svc, c, id) EXCEPT
                                        !.made[c] = id, !.live[c] = @ \cup {id},
                                        !.task[t].conn = id, !.task[t].made = @ + 1], t, FALSE)
                  ELSE IF /\ c = "opensearch"
                          /\ svc.task[t].pc = "connect"
                          /\ o = "ConnectionError"
                          /\ svc.task[t].ssl
                  THEN svc' = [svc EXCEPT !.task[t].pc = "fallback"]
                  ELSE svc' = Finish(WithHandle(svc, c, 0), t, TRUE)
    /\ UNCHANGED <<unit, application>>

\* shutdown_engine (mysql.py lines 43-52: the engine is disposed and set to
\* None, the session factory is left as it is), close_cache, close_client and
\* close_connection: a set handle is closed and set to None
Shutdown ==
    /\ \E c \in {svc.c} :
         /\ \A t \in Tasks : svc.task[t].pc = "idle"
         /\ svc' = [svc EXCEPT !.handle[c] = 0,
                               !.live[c] = @ \ {svc.handle[c]},
                               !.down = @ \cup {c},
                               !.last = <<"shutdown", c>>]
    /\ UNCHANGED <<unit, application>>

\* get_session without its except clause
get_session_unguarded(session_factory, consumer, commit) ==
    IF session_factory = 0
    THEN AppException("Database connection unavailable", 503)
    ELSE [raised |-> IF consumer # "ok" THEN consumer ELSE IF commit # "ok" THEN commit ELSE "none",
          message |-> "", status_code |-> 0,
          value |-> IF consumer = "ok" THEN <<"yield", "commit", "close">>
                    ELSE <<"yield", "close">>]

\* get_session, mysql.py lines 55-70, around a consumer that finishes, raises
\* an Exception or is cancelled (CancelledError is no Exception), with a
\* commit that succeeds, raises or is cancelled: the calls made on the
\* session, and what leaves the generator
get_session(session_factory, consumer, commit) ==
    IF session_factory = 0
    THEN AppException("Database connection unavailable", 503)
    ELSE LET failure == IF consumer # "ok" THEN consumer ELSE commit
             tried == IF consumer = "ok" THEN <<"yield", "commit">> ELSE <<"yield">>
         IN  [raised |-> IF failure = "ok" THEN "none" ELSE failure,
              message |-> "", status_code |-> 0,
              value |-> tried \o (IF failure = "Exception" THEN <<"rollback">> ELSE <<>>)
                             \o <<"close">>]

\* what the consumer of a session and the commit do
SessionOutcomes == {"ok", "Exception", "CancelledError"}

\* a route handler that depends on get_session is called
CallGetSession ==
    /\ svc.c = "mysql"
    /\ \E consumer \in SessionOutcomes, commit \in SessionOutcomes :
         unit' = Call("get_session", <<svc.factory, consumer, commit>>,
                      get_session(svc.factory, consumer, commit), FALSE)
    /\ UNCHANGED pipeline

\* the modules are imported; one task or two call the functions of a module
InitServices ==
    /\ svc \in {[NoSvc EXCEPT !.tasks = T, !.c = c] : T \in {{"t1"}, Tasks}, c \in Collaborators}
    /\ boot = NoBoot
    /\ active = {}
    /\ workload = "sequential"
    /\ unit = NoCall
    /\ pii_fields = {}
    /\ formatter_pii = pii_fields
    /\ exempt_paths = {}
    /\ jwt_cfg = [algorithm |-> "HS256", issuer |-> PYNONE, audience |-> PYNONE]
    /\ enclosing = MISSING
    /\ served = 0
    /\ uuids = 0
    /\ pc = [r \in Reqs |-> "idle"]
    /\ at = [r \in Reqs |-> 0]
    /\ req = [r \in Reqs |-> NoRequest]
    /\ cx = [r \in Reqs |-> [i \in Levels |-> enclosing]]
    /\ state_cid = [r \in Reqs |-> MISSING]
    /\ state_user = [r \in Reqs |-> MISSING]
    /\ dsp = [r \in Reqs |-> NoDispatch]
    /\ log_cid = [r \in Reqs |-> MISSING]
    /\ exc = [r \in Reqs |-> NoOutcome]
    /\ resp = [r \in Reqs |-> NoResponse]
    /\ sink = [r \in Reqs |-> <<>>]
    /\ hist = [r \in Reqs |-> NoHist]

NextServices ==
    \/ \E t \in Tasks : InitStart(t) \/ InitResume(t)
    \/ Shutdown
    \/ CallGetSession

SpecServices == InitServices /\ [][NextServices]_vars

-----------------------------------------------------------------------------
(* Vocabulary of the properties *)

\* the response of request r has been sent to the client
Sent(r) == pc[r] = "done"

\* the id the correlation stage assigned to request r
AssignedId(r) == dsp[r].correlation_id

\* the decoded JSON body of the response of r (null when it is not JSON)
BodyOf(r) == IF JParses(resp[r].body) THEN JLoads(resp[r].body) ELSE JNull

\* the value of the outbound correlation header of r
HeaderOf(r) == HGet(resp[r].headers, CORRELATION_HEADER, MISSING)

\* a Python str, whatever its content
IsString(j) == j.t \in {"str", "jstr", "jstrc"}

\* the lowercased redaction set of the deployment
RedactionSet == {Lower(f) : f \in pii_fields}

\* some value stored under a key of the set, at any depth of j (through
\* mappings, lists and JSON texts), is not the redaction marker
RECURSIVE Leaks(_, _)
Leaks(j, keys) ==
    CASE j.t = "map" ->
           \E i \in DOMAIN j.v :
               IF Lower(j.v[i][1]) \in keys
               THEN j.v[i][2] # JStr(REDACTION_TEXT)
               ELSE Leaks(j.v[i][2], keys)
      [] j.t = "list" -> \E i \in DOMAIN j.v : Leaks(j.v[i], keys)
      [] j.t \in {"jstr", "jstrc"} -> Leaks(j.v, keys)
      [] OTHER -> FALSE

\* the records of the sink of r written by the logger of a module
RecordsOf(r, name) ==
    {i \in DOMAIN sink[r] : MapGet(JLoads(sink[r][i]), "logger") = JStr(name)}

-----------------------------------------------------------------------------
(* Properties of the correlation id *)

\* C1: every response sent to a client carries the X-Correlation-ID header
\* with the id of the request, whatever produced the response (handler, 401 of
\* the authentication stage, handled error, 500 of an unhandled exception).
C1_EveryResponseCarriesHeader ==
    \A r \in Reqs :
        Sent(r) => /\ HHas(resp[r].headers, CORRELATION_HEADER)
                   /\ HeaderOf(r) = AssignedId(r)

\* C2: when the body of a sent response is a JSON mapping with a
\* correlation_id, that id equals the outbound header, and both equal the
\* inbound header when the client supplied one and are a freshly generated
\* non-empty id otherwise, for every payload a handler returns.
C2_BodyIdEqualsHeaderAndInbound ==
    \A r \in Reqs :
        (Sent(r) /\ BodyOf(r).t = "map" /\ HasKey(BodyOf(r), "correlation_id")) =>
            /\ MapGet(BodyOf(r), "correlation_id") = JStr(HeaderOf(r))
            /\ HeaderOf(r) # ""
            /\ IF StrTruthy(req[r].cid_header)
               THEN HeaderOf(r) = req[r].cid_header
               ELSE HeaderOf(r) \in {new_correlation_id(n) : n \in 1..uuids}


\* the access-log records of r carry the id x in their extras and at top level
AccessLogsCarry(r, x) ==
    \A i \in RecordsOf(r, "app.middlewares.logging") :
        LET rec == JLoads(sink[r][i])
        IN  /\ MapGet(rec, "correlation_id") = JStr(x)
            /\ MapGet(MapGet(rec, "extra"), "correlation_id") = JStr(x)

\* the body of r is an error body: the 401 of the authentication stage or the
\* envelope of the error responder
IsErrorBody(r) ==
    /\ resp[r].status >= 400
    /\ BodyOf(r).t = "map"
    /\ HasKey(BodyOf(r), "error")

\* C3: exactly one correlation id is assigned to a request, and it is assigned
\* before the authentication stage, the access logger and the error responder
\* run; the 401 body, the access-log records and the error envelopes carry that
\* id, and the fallback that mints another id (in the authentication stage and
\* in the error responder) is never taken.
C3_OneIdAssignedFirst ==
    \A r \in Reqs :
        /\ hist[r].fallbacks = 0
        /\ hist[r].sets <= 1
        /\ hist[r].mints <= 1
        /\ hist[r].events # <<>> =>
              /\ hist[r].events[1] = "correlation"
              /\ hist[r].sets = 1
              /\ StrTruthy(AssignedId(r))
              /\ \A i \in 2..Len(hist[r].events) : hist[r].events[i] # "correlation"
        /\ AccessLogsCarry(r, AssignedId(r))
        /\ IsErrorBody(r) => MapGet(BodyOf(r), "correlation_id") = JStr(AssignedId(r))

\* C3 witness: a request without an inbound id is rejected by the
\* authentication stage after the access logger wrote its record, and the
\* 401 is sent with the id minted by the correlation stage
C3_Witness ==
    \E r \in Reqs :
        /\ Sent(r)
        /\ resp[r].status = 401
        /\ req[r].cid_header = MISSING
        /\ hist[r].mints = 1
        /\ hist[r].events = <<"correlation", "logging", "jwt">>
        /\ RecordsOf(r, "app.middlewares.logging") # {}
        /\ MapGet(BodyOf(r), "correlation_id") = JStr(AssignedId(r))

-----------------------------------------------------------------------------
(* Properties of the authentication stage *)

\* the Authorization header of a request is missing, malformed, or carries a
\* token that does not verify under the deployment's settings
Rejectable(a) ==
    \/ ~a.present
    \/ Len(a.atoms) < 3
    \/ Lower(a.atoms[1]) # "bearer"
    \/ a.atoms[2] # " "
    \/ Len(a.atoms) # 3
    \/ a.atoms[3] \notin TokenNames
    \/ LET j == TokenOf(a.atoms[3])
       IN  \/ ~j.sig_ok
           \/ j.expired
           \/ j.alg # jwt_cfg.algorithm
           \/ (jwt_cfg.issuer # PYNONE /\ j.iss # jwt_cfg.issuer)
           \/ (jwt_cfg.audience # PYNONE /\ j.aud # PYNONE /\ j.aud # jwt_cfg.audience)

\* C4: a request that is neither exempt nor a pre-flight and whose token is
\* missing, malformed or invalid is answered with 401 and an error envelope,
\* never with 500 and never by raising, and its handler is never invoked.
C4_BadTokenIs401 ==
    \A r \in Reqs :
        ("jwt" \in {hist[r].events[i] : i \in DOMAIN hist[r].events}
            /\ ~IsExempt(req[r]) /\ Rejectable(req[r].authorization)) =>
            /\ hist[r].handler_calls = 0
            /\ hist[r].responders = 0
            /\ exc[r].kind = "none"
            /\ pc[r] \notin {"raise", "respond"}
            /\ pc[r] # "cancelled" =>
                  /\ resp[r].status = 401
                  /\ BodyOf(r).t = "map"
                  /\ IsString(MapGet(BodyOf(r), "error"))
                  /\ MapGet(BodyOf(r), "correlation_id") = JStr(AssignedId(r))

\* C4 witness: a token that fails verification (expired) on a protected path
\* has been answered with 401 and the handler was not called
C4_Witness ==
    \E r \in Reqs :
        /\ Sent(r)
        /\ req[r].path = "/users"
        /\ req[r].method = "GET"
        /\ req[r].authorization = AuthText(<<"Bearer", " ", "T_expired">>)
        /\ resp[r].status = 401
        /\ hist[r].handler_calls = 0

-----------------------------------------------------------------------------
(* Properties of the error responder *)

\* C5: an error no specific rule handles is answered with status 500 and the
\* body {error: "Internal server error", correlation_id: id of the request},
\* with no details, whatever the type and the message of the exception.
C5_UnhandledIsOpaque500 ==
    \A r \in Reqs :
        (Sent(r) /\ exc[r].kind = "unhandled") =>
            /\ resp[r].status = 500
            /\ resp[r].body =
                 JDumps(JMap(<< <<"error", JStr("Internal server error")>>,
                                <<"correlation_id", JStr(AssignedId(r))>> >>))

\* C5 witness: a handler raised an exception whose message holds user data and
\* the 500 has been sent
C5_Witness ==
    \E r \in Reqs :
        /\ Sent(r)
        /\ exc[r].kind = "unhandled"
        /\ exc[r].text = "IntegrityError: duplicate entry a@b.com"
        /\ hist[r].handler_calls = 1
        /\ resp[r].status = 500


\* the error responder answered r for an error of one of the handled kinds
Handled(r) == exc[r].kind \in {"http", "validation", "app"} /\ hist[r].responders > 0

\* C6: for an HTTP error, a payload validation failure and an application
\* error, the details of the error response are redacted: no value stored
\* under a key of the redaction set appears in details at any depth.
C6_DetailsRedacted ==
    \A r \in Reqs :
        (Handled(r) /\ IsErrorBody(r)) =>
            ~Leaks(MapGet(BodyOf(r), "details"), RedactionSet)

\* the records of the sink of r written by the error responder
ResponderRecords(r) == RecordsOf(r, "app.core.exceptions")

\* C7: every record the error responder writes to the log sink (for HTTP,
\* validation, application and unhandled errors) holds only redacted payload:
\* no value stored under a key of the redaction set, at any depth of the
\* extras of the record, reaches the sink.
C7_ResponderLogsRedacted ==
    \A r \in Reqs :
        \A i \in ResponderRecords(r) :
            ~Leaks(MapGet(JLoads(sink[r][i]), "extra"), {Lower(f) : f \in formatter_pii})

\* C7 witness: the record of a validation failure whose errors hold the
\* submitted e-mail address has been written, with the address redacted
C7_Witness ==
    \E r \in Reqs :
        /\ exc[r].kind = "validation"
        /\ Leaks(exc[r].val, RedactionSet)
        /\ ResponderRecords(r) # {}
        /\ \E i \in ResponderRecords(r) :
              HasKey(MapGet(JLoads(sink[r][i]), "extra"), "errors")

\* C8: the error string of an HTTP-error response does not disclose the value
\* of a redacted field: an HTTP error whose detail differs from the one raised
\* only in the values of redacted fields would get the same response body.
C8_ErrorStringHidesRedacted ==
    \A r \in Reqs :
        (Sent(r) /\ exc[r].kind = "http" /\ hist[r].responders = 1) =>
            \A other \in HttpDetails :
                scrub_pii(other, pii_fields) = scrub_pii(exc[r].val, pii_fields) =>
                    LET detail_payload == DetailPayload(other, req[r].path)
                    IN  BodyOf(r) =
                          JLoads(_error_response(HttpMessage(detail_payload), exc[r].status,
                                     scrub_pii(detail_payload, pii_fields),
                                     AssignedId(r), AssignedId(r), uuids).body)

\* C9: every error body, of the authentication stage or of the error
\* responder, has the envelope shape: the keys are error, correlation_id and
\* optionally details, error is a string, correlation_id is a non-empty string.
C9_EnvelopeShape ==
    \A r \in Reqs :
        (Sent(r) /\ resp[r].status >= 400) =>
            /\ BodyOf(r).t = "map"
            /\ {BodyOf(r).v[i][1] : i \in DOMAIN BodyOf(r).v}
                  \in {{"error", "correlation_id"}, {"error", "correlation_id", "details"}}
            /\ IsString(MapGet(BodyOf(r), "error"))
            /\ MapGet(BodyOf(r), "correlation_id").t = "str"
            /\ MapGet(BodyOf(r), "correlation_id").v # ""

-----------------------------------------------------------------------------
(* Properties of the correlation context *)

\* C10: on every exit path of the correlation stage (normal return, 401 of the
\* authentication stage, exception, cancellation) the context is released
\* exactly once and the ambient id is again what it was before the request; a
\* worker that is free never holds the id of an earlier request.
C10_ContextReleasedOnce ==
    \A r \in Reqs :
        /\ hist[r].releases <= 1
        /\ dsp[r].in_try => hist[r].releases = 0
        /\ (hist[r].sets > 0 /\ ~dsp[r].in_try) =>
              /\ hist[r].releases = 1
              /\ cx[r][1] = hist[r].before
        /\ pc[r] \in {"idle", "done", "cancelled"} => cx[r][1] = enclosing

\* C10 witness: the second request of a worker whose context held an id before
\* any request was cancelled inside the try block, and the context was released
C10_Witness ==
    \E r \in Reqs :
        /\ pc[r] = "cancelled"
        /\ served = 2
        /\ enclosing = "cid-enclosing"
        /\ hist[r].sets = 1
        /\ hist[r].releases = 1
        /\ cx[r][1] = "cid-enclosing"


\* C11: from the set at chain entry until the final response is returned,
\* every read of the ambient correlation id returns the id of the request:
\* the id the formatter reads for each record of the request (access logs,
\* the record of a failed rewrite, the records of the error responder, also
\* for an unhandled error) is the id of the request.
C11_AmbientReadsAreOwnId ==
    \A r \in Reqs :
        \A i \in DOMAIN sink[r] :
            MapGet(JLoads(sink[r][i]), "correlation_id") = JStr(AssignedId(r))

-----------------------------------------------------------------------------
(* Properties of concurrently processed requests *)

\* the principal of the token r presented
PrincipalOf(r) == TokenOf(req[r].authorization.atoms[3]).sub

\* the ids r holds and the ids of its response: the request-scoped id, the
\* ambient id while the correlation stage holds the context, the header and
\* the id of the body of its response
HeldIdsOf(r) ==
    ({state_cid[r]} \ {MISSING})
    \cup (IF dsp[r].in_try THEN {cx[Task(r)][at[r]]} ELSE {})
    \cup (IF Sent(r) /\ HHas(resp[r].headers, CORRELATION_HEADER) THEN {HeaderOf(r)} ELSE {})
    \cup (IF Sent(r) /\ BodyOf(r).t = "map" /\ HasKey(BodyOf(r), "correlation_id")
          THEN {MapGet(BodyOf(r), "correlation_id").v} ELSE {})

\* the ids the records of r were formatted with
LoggedIdsOf(r) == {MapGet(JLoads(sink[r][i]), "correlation_id").v : i \in DOMAIN sink[r]}

\* C12: under every interleaving of the steps of concurrently processed
\* requests, the request-scoped id and principal of a request, its ambient id
\* while the correlation stage holds the context, the header and the body id
\* of its response are its own, and the request never holds, logs or emits
\* the id or the principal of another request.
C12_OwnIdUnderInterleaving ==
    \A r \in Reqs :
        /\ state_user[r] # MISSING => state_user[r] = PrincipalOf(r)
        /\ StrTruthy(AssignedId(r)) => HeldIdsOf(r) \subseteq {AssignedId(r)}
        /\ \A s \in Reqs \ {r} :
               (StrTruthy(AssignedId(s)) /\ AssignedId(s) # AssignedId(r)) =>
                   AssignedId(s) \notin HeldIdsOf(r) \cup LoggedIdsOf(r)

\* C12 witness: two requests in flight with two minted ids and two
\* principals, one still in its handler, the other answered with a rewritten
\* body after the first was assigned its id
C12_Witness ==
    \E r, s \in Reqs :
        /\ r # s
        /\ pc[s] = "in" /\ at[s] = App
        /\ AssignedId(s) = new_correlation_id(1)
        /\ state_user[s] = "alice"
        /\ Sent(r)
        /\ hist[r].rewrite = "injected"
        /\ AssignedId(r) = new_correlation_id(2)
        /\ MapGet(BodyOf(r), "correlation_id") = JStr(new_correlation_id(2))
        /\ state_user[r] = "carol"

-----------------------------------------------------------------------------
(* Properties of the response rewrite *)

\* the rewrite re-emitted the response of r, or had to give it back
Rewritten(r) == hist[r].rewrite \in {"injected", "unrendered", "invalid", "failed"}

\* C13: when buffering the body or parsing and re-serialising it fails (before
\* any chunk, after some chunks, on invalid JSON, while the new response is
\* built), the client receives the complete original body with the original
\* status code.
C13_FailedRewriteKeepsOriginal ==
    \A r \in Reqs :
        (Sent(r) /\ hist[r].rewrite \in {"unrendered", "invalid", "failed"}) =>
            /\ resp[r].status = hist[r].origin.status
            /\ resp[r].body = hist[r].origin.body

\* the response call_next gave for r is on the rewrite path and its body is
\* JSON that is read whole
ParsedOrigin(r) ==
    /\ req[r].path \notin skip_paths
    /\ IsJsonType(HGet(hist[r].origin.headers, "content-type", ""))
    /\ ~hist[r].origin.stream.fails
    /\ hist[r].origin.stream.chunks > 0
    /\ JParses(hist[r].origin.body)
    /\ Serialisable(JLoads(hist[r].origin.body))

\* C14: for a JSON body that parses, the rewritten body is the mapping with
\* correlation_id added when it has none, the mapping as it is when it has its
\* own correlation_id, and {data: value, correlation_id: id} for a sequence or
\* a scalar (null included).
C14_RewrittenBody ==
    \A r \in Reqs :
        (Sent(r) /\ ParsedOrigin(r)) =>
            LET value == JLoads(hist[r].origin.body)
                id == JStr(AssignedId(r))
            IN  /\ resp[r].body.t = "jstrc"
                /\ IF value.t = "map" /\ HasKey(value, "correlation_id")
                   THEN BodyOf(r) = value
                   ELSE IF value.t = "map"
                   THEN BodyOf(r) = JMap(Append(value.v, <<"correlation_id", id>>))
                   ELSE BodyOf(r) = JMap(<< <<"data", value>>, <<"correlation_id", id>> >>)

\* C14 witness: the handler returned [1,2,3] and the client got
\* {data: [1,2,3], correlation_id: id}; another returned its own correlation_id
C14_Witness ==
    \E r \in Reqs :
        /\ Sent(r)
        /\ ParsedOrigin(r)
        /\ JLoads(hist[r].origin.body) = JList(<<JNum(1), JNum(2), JNum(3)>>)
        /\ BodyOf(r) = JMap(<< <<"data", JList(<<JNum(1), JNum(2), JNum(3)>>)>>,
                               <<"correlation_id", JStr(AssignedId(r))>> >>)

\* the values of the header `name` in h, in order
HValues(h, name) == SelectSeq(h, LAMBDA e : e[1] = name)

\* C15: the response the rewrite re-emits has the status code of the response
\* it read and every header of it other than content-length: each name, each
\* value and each occurrence of a repeated header.
C15_RewriteKeepsHeaders ==
    \A r \in Reqs :
        (Sent(r) /\ Rewritten(r) /\ ~hist[r].origin.stream.fails) =>
            /\ resp[r].status = hist[r].origin.status
            /\ \A i \in DOMAIN hist[r].origin.headers :
                  LET name == hist[r].origin.headers[i][1]
                  IN  name # "content-length" =>
                          HValues(resp[r].headers, name) = HValues(hist[r].origin.headers, name)

-----------------------------------------------------------------------------
(* Properties of the order of the stages *)

\* the positions of an event in the history of r
Positions(r, e) == {i \in DOMAIN hist[r].events : hist[r].events[i] = e}

\* C16: the stages run in the order Correlation, Authentication, Logging,
\* handler, rewrite: the access logger runs only after the request was found
\* exempt or was authenticated, so a request the authentication stage rejects
\* has no "Incoming request" and no "Outgoing response" record.
C16_LoggingAfterAuthentication ==
    \A r \in Reqs :
        /\ \A i \in Positions(r, "logging") : \E j \in Positions(r, "jwt") : j < i
        /\ hist[r].rejections > 0 => RecordsOf(r, "app.middlewares.logging") = {}

\* C17: at most one error response is produced for a request and each error
\* is handled once: an authentication failure is answered by the
\* authentication stage and the error responder is not invoked for it; an
\* error raised by the handler is caught by the error responder exactly once.
C17_ErrorsHandledOnce ==
    \A r \in Reqs :
        /\ hist[r].rejections + hist[r].responders <= 1
        /\ ("jwt" \in {hist[r].events[i] : i \in DOMAIN hist[r].events}
              /\ ~IsExempt(req[r]) /\ Rejectable(req[r].authorization)) =>
                 /\ hist[r].rejections = 1
                 /\ hist[r].responders = 0
        /\ exc[r].kind # "none" =>
              /\ hist[r].rejections = 0
              /\ hist[r].handler_calls = 1
              /\ hist[r].responders = (IF pc[r] \in {"raise", "respond"} THEN 0 ELSE 1)

\* C17 witness: an application error was answered by the responder, once,
\* and the response has been sent
C17_Witness ==
    \E r \in Reqs :
        /\ Sent(r)
        /\ exc[r].kind = "app"
        /\ resp[r].status = 400
        /\ hist[r].responders = 1
        /\ hist[r].rejections = 0


\* the authentication stage rejected r, or its handler raised
StageFailed(r) == hist[r].rejections > 0 \/ exc[r].kind # "none"

\* at most one response is sent for r and its handler is called at most once;
\* when r was answered after a stage failed, the response is the JSON error
\* envelope with the id of the request
OneResponse(r) ==
    /\ hist[r].responses <= 1
    /\ hist[r].handler_calls <= 1
    /\ Sent(r) => hist[r].responses = 1
    /\ (Sent(r) /\ StageFailed(r)) =>
          /\ IsErrorBody(r)
          /\ HGet(resp[r].headers, "content-type", MISSING) = "application/json"
          /\ HasKey(BodyOf(r), "correlation_id")

\* C18: provided the route handler returns or raises, every accepted request
\* is eventually answered, with exactly one response, whatever the stages
\* decide (exempt or not, token accepted or rejected, handler result or error
\* of any kind, body rewritten or not); when a stage failed the response is a
\* JSON error envelope and the handler was called at most once.
C18_EveryRequestAnswered ==
    /\ [](\A r \in Reqs : OneResponse(r))
    /\ \A r \in Reqs : (pc[r] # "idle") ~> Sent(r)

\* C18 witness: the second request of a worker passed authentication, its
\* handler raised an exception no handler is registered for, and the request
\* was answered once, with the 500 envelope
C18_Witness ==
    \E r \in Reqs :
        /\ Sent(r)
        /\ served = 2
        /\ exc[r].kind = "unhandled"
        /\ hist[r].handler_calls = 1
        /\ hist[r].responses = 1
        /\ resp[r].status = 500
        /\ IsErrorBody(r)

-----------------------------------------------------------------------------
(* Properties of the redaction engine *)

\* the value the error responder redacted for r, and the result it put in
\* the details of the response
RedactInput(r) ==
    IF exc[r].kind = "http" THEN DetailPayload(exc[r].val, req[r].path) ELSE exc[r].val
RedactOutput(r) == MapGet(BodyOf(r), "details")
RedactApplied(r) ==
    /\ exc[r].kind \in {"http", "app"}
    /\ hist[r].responders > 0
    /\ IsErrorBody(r)
    /\ HasKey(BodyOf(r), "details")

\* y is x with the value of every key of the set replaced by the marker, at
\* every depth reached through mappings, sequences and JSON texts
RECURSIVE Redacted(_, _, _)
Redacted(x, y, keys) ==
    CASE x.t = "map" ->
           /\ y.t = "map"
           /\ Len(y.v) = Len(x.v)
           /\ \A i \in DOMAIN x.v :
                 /\ y.v[i][1] = x.v[i][1]
                 /\ IF Lower(x.v[i][1]) \in keys
                    THEN y.v[i][2] = JStr(REDACTION_TEXT)
                    ELSE Redacted(x.v[i][2], y.v[i][2], keys)
      [] x.t = "list" ->
           /\ y.t = "list"
           /\ Len(y.v) = Len(x.v)
           /\ \A i \in DOMAIN x.v : Redacted(x.v[i], y.v[i], keys)
      [] x.t \in {"jstr", "jstrc"} ->
           /\ JParses(y)
           /\ Redacted(JLoads(x), JLoads(y), keys)
      [] OTHER -> y = x

\* C19: redact(value, F) with non-empty F replaces the value of every mapping
\* key whose lowercased name is a lowercased name of F by '***REDACTED***', at
\* every depth reached through mappings, sequences and JSON-encoded strings
\* (the whole subtree under the key), and recurses into every other value.
C19_RedactReplacesMatchingKeys ==
    \A r \in Reqs :
        (RedactApplied(r) /\ pii_fields # {}) =>
            Redacted(RedactInput(r), RedactOutput(r), RedactionSet)

\* C19 witness: with email in the set, the payload {email: 'a@b.com',
\* name: 'x'} of an application error came out as
\* {email: '***REDACTED***', name: 'x'}
C19_Witness ==
    \E r \in Reqs :
        /\ RedactApplied(r)
        /\ "email" \in RedactionSet
        /\ RedactInput(r) = JMap(<< <<"email", JStr("a@b.com")>>, <<"name", JStr("x")>> >>)
        /\ RedactOutput(r) = JMap(<< <<"email", JStr(REDACTION_TEXT)>>,
                                     <<"name", JStr("x")>> >>)

\* y differs from x only in values stored under a key of the set: the keys
\* of every mapping and the order and length of every sequence are those of
\* x, and every other value, a string included, is the one of x (a JSON text
\* that holds a key of the set may differ)
RECURSIVE Frame(_, _, _)
Frame(x, y, keys) ==
    CASE x.t = "map" ->
           /\ y.t = "map"
           /\ Len(y.v) = Len(x.v)
           /\ \A i \in DOMAIN x.v :
                 /\ y.v[i][1] = x.v[i][1]
                 /\ Lower(x.v[i][1]) \in keys \/ Frame(x.v[i][2], y.v[i][2], keys)
      [] x.t = "list" ->
           /\ y.t = "list"
           /\ Len(y.v) = Len(x.v)
           /\ \A i \in DOMAIN x.v : Frame(x.v[i], y.v[i], keys)
      [] x.t \in {"jstr", "jstrc"} -> Leaks(JLoads(x), keys) \/ y = x
      [] OTHER -> y = x

\* C20: redact never changes the keys of a mapping nor the order or length of
\* a sequence, and the only values that differ between x and redact(x, F) are
\* those under a key matching a name of F; every other value, a string under a
\* non-matching key included, is returned unchanged.
C20_RedactChangesOnlyMatching ==
    \A r \in Reqs :
        RedactApplied(r) => Frame(RedactInput(r), RedactOutput(r), RedactionSet)

-----------------------------------------------------------------------------
(* Properties of the redaction called on its own *)

\* C21: redact is idempotent: for every value built from mappings, lists,
\* texts (JSON or not, also texts that encode JSON texts) and scalars, and
\* every field set, redacting the result of a redaction with the same fields
\* gives that result again.
C21_RedactIdempotent ==
    (unit.fn = "scrub_pii" /\ unit.again) => unit.result = unit.args[1]

\* C21 witness: the second redaction of a mapping whose non-matching key
\* holds a JSON text twice encoded, which the first redaction rewrote
C21_Witness ==
    /\ unit.fn = "scrub_pii"
    /\ unit.again
    /\ unit.args[2] = <<"Email">>
    /\ unit.result = JMap(<< <<"Email", JStr(REDACTION_TEXT)>>,
                             <<"name", JDumps(JDumps(JList(<<JNum(1), JNum(2)>>)))>> >>)

\* C22: when the field set is empty (no names, or a blank PII_FIELDS setting)
\* redact returns its input as it is, also when the input is a text that
\* parses as JSON.
C22_EmptySetIsIdentity ==
    (unit.fn = "scrub_pii" /\ unit.args[2] = <<>>) => unit.result = unit.args[1]

\* C22 witness: with a setting made of blank items, a text that parses as
\* JSON and is not in the form json.dumps gives was handed in and came back
C22_Witness ==
    /\ unit.fn = "scrub_pii"
    /\ ~unit.again
    /\ unit.args = <<JText(JMap(<< <<"Email", JStr("a@b.com")>> >>)), <<>>>>
    /\ unit.result = JText(JMap(<< <<"Email", JStr("a@b.com")>> >>))

-----------------------------------------------------------------------------
(* Properties of the mapping from errors to responses *)

\* the message the rule for HTTP errors names: the message, the detail, the
\* error field of the detail, in that order, else 'HTTP error'
NamedHttpMessage(detail) ==
    IF detail.t # "map" THEN (IF Truthy(detail) THEN detail ELSE JStr("HTTP error"))
    ELSE IF HasKey(detail, "message") /\ Truthy(MapGet(detail, "message"))
         THEN MapGet(detail, "message")
    ELSE IF HasKey(detail, "detail") /\ Truthy(MapGet(detail, "detail"))
         THEN MapGet(detail, "detail")
    ELSE IF HasKey(detail, "error") /\ Truthy(MapGet(detail, "error"))
         THEN MapGet(detail, "error")
    ELSE JStr("HTTP error")

\* the response sent for r has this status and this error message
Answered(r, status, message) ==
    /\ resp[r].status = status
    /\ BodyOf(r).t = "map"
    /\ MapGet(BodyOf(r), "error") = message

\* the response sent for r is the one the rules give for the error its
\* handler raised
ErrorMapped(r) ==
    LET o == hist[r].raised
    IN  CASE o.kind = "http" -> Answered(r, o.status, NamedHttpMessage(o.val))
          [] o.kind = "validation" ->
               /\ Answered(r, 422, JStr("Payload validation failed"))
               /\ MapGet(MapGet(BodyOf(r), "details"), "errors") = o.val
          [] o.kind = "app" ->
               /\ Answered(r, o.status, JStr(o.text))
               /\ o.text = "Rejected" => resp[r].status = 400
          [] o.kind = "unhandled" -> Answered(r, 500, JStr("Internal server error"))

\* C23: the response to an error of the handler has the status and the
\* message of its kind: an HTTP error its own status and the message, detail
\* or error field of its detail, else 'HTTP error'; a payload validation
\* failure 422, 'Payload validation failed' and the field errors as details;
\* an AppException the status (400 when none was given) and the message of the
\* caller; any other exception 500 and 'Internal server error'.
C23_ErrorKindsMapped ==
    \A r \in Reqs :
        (Sent(r) /\ hist[r].raised.kind # "none") => ErrorMapped(r)

\* every error whose details json.dumps accepts is answered as the rules say
SerialisableErrorsMapped ==
    \A r \in Reqs :
        (Sent(r) /\ hist[r].raised.kind # "none" /\ Serialisable(hist[r].raised.val)) =>
            ErrorMapped(r)

-----------------------------------------------------------------------------
(* Properties of the exemption from authentication *)

\* the request is one the claim exempts: its path is in the configured exempt
\* set, or its method is OPTIONS
ExemptRequest(r) == req[r].path \in exempt_paths \/ req[r].method = "OPTIONS"

\* r has gone through the authentication stage
PassedJwt(r) == "jwt" \in {hist[r].events[i] : i \in DOMAIN hist[r].events}

C25_HealthAlwaysExempt ==
    \A r \in Reqs :
        (/\ Sent(r)
         /\ req[r].path = "/health"
         /\ req[r].method = "GET"
         /\ req[r].authorization = NoAuth)
        => /\ hist[r].rejections = 0
           /\ hist[r].handler_calls = 1

-----------------------------------------------------------------------------
(* Properties of the correlation stage *)

\* the records the correlation stage wrote for r at a level
CorrelationRecords(r, level) ==
    {i \in RecordsOf(r, "app.middlewares.correlation") :
        MapGet(JLoads(sink[r][i]), "level") = JStr(level)}

\* C26: the correlation stage mints an id exactly when the inbound
\* X-Correlation-ID header is absent, empty or blank, and otherwise adopts the
\* inbound value verbatim; the id is stored on the request state and in the
\* ambient context; an info record is written exactly when an id was minted
\* and a debug record exactly when the inbound id was adopted.
C26_MintsExactlyWhenBlank ==
    \A r \in Reqs :
        hist[r].events # <<>> =>
            LET h == req[r].cid_header
                blank == ~StrTruthy(h) \/ Strip(h) = ""
                minted == hist[r].mints = 1
            IN  /\ minted <=> blank
                /\ minted => AssignedId(r) \in {new_correlation_id(n) : n \in 1..uuids}
                /\ ~minted => AssignedId(r) = h
                /\ state_cid[r] = AssignedId(r)
                /\ dsp[r].in_try => cx[r][1] = AssignedId(r)
                /\ Cardinality(CorrelationRecords(r, "INFO")) = (IF minted THEN 1 ELSE 0)
                /\ Cardinality(CorrelationRecords(r, "DEBUG")) = (IF minted THEN 0 ELSE 1)


-----------------------------------------------------------------------------
(* Properties of extract_token *)

\* the position of the first space of a header text, 0 when it holds none
SpaceAt(atoms) ==
    IF \A i \in DOMAIN atoms : atoms[i] # " " THEN 0
    ELSE CHOOSE i \in DOMAIN atoms : atoms[i] = " " /\ \A j \in DOMAIN atoms : j < i => atoms[j] # " "

\* C27: extract_token fails with status 401 exactly when the header is absent
\* or empty, or the text before the first space is not 'bearer' compared
\* case-insensitively, or the text after the first space is empty; otherwise
\* it returns the text after the first space unchanged. It changes no state.
C27_ExtractToken ==
    unit.fn = "extract_token" =>
        LET h == unit.args[1]
            k == SpaceAt(h.atoms)
            bearer == k = 2 /\ h.atoms[1] \in {"bearer", "Bearer", "BEARER"}
            fails == \/ ~h.present
                     \/ h.atoms = <<>>
                     \/ ~bearer
                     \/ k = Len(h.atoms)
        IN  /\ fails <=> (unit.result.raised = "AppException" /\ unit.result.status_code = 401)
            /\ ~fails => /\ unit.result.raised = "none"
                         /\ unit.result.value = [i \in 1..(Len(h.atoms) - k) |-> h.atoms[k + i]]
            /\ \A r \in Reqs : pc[r] = "idle" /\ state_user[r] = MISSING /\ sink[r] = <<>>

\* C27 witness: a header with the scheme in lower case and a token that holds
\* a space was handed to extract_token, which returned the whole text after
\* the first space
C27_Witness ==
    /\ unit.fn = "extract_token"
    /\ unit.args[1] = AuthText(<<"Bearer", " ", "T_valid", " ", "T_badsig">>)
    /\ unit.result = Returned(<<"T_valid", " ", "T_badsig">>)


\* C28: the principal is attached to the request state only after the token
\* was extracted and verified, and it is attached before the handler on every
\* non-exempt request that reaches the handler; on exempt paths and on
\* pre-flight requests no principal is attached, even with a valid token.
C28_PrincipalOnlyAfterVerification ==
    \A r \in Reqs :
        LET exempt == ExemptRequest(r) \/ req[r].path \in BuiltinExempt
            header == req[r].authorization
            token == extract_token(header)
        IN  /\ state_user[r] # MISSING =>
                  /\ ~exempt
                  /\ token.raised = "none"
                  /\ ~JWTError(token.value, jwt_cfg)
                  /\ state_user[r] = PrincipalOf(r)
                  /\ hist[r].auth_reads = 1
            \* while the request exists (a cancelled one is dropped with its state)
            /\ (~exempt /\ hist[r].handler_calls > 0 /\ pc[r] # "cancelled")
                  => state_user[r] # MISSING
            /\ exempt => state_user[r] = MISSING

\* C28 witness: a protected request with a valid token reached the handler
\* with its principal attached
C28_Witness ==
    \E r \in Reqs :
        /\ req[r].path = "/users"
        /\ req[r].method = "GET"
        /\ req[r].authorization = AuthText(<<"bearer", " ", "T_valid">>)
        /\ hist[r].handler_calls = 1
        /\ state_user[r] = "alice"
        /\ Sent(r)


-----------------------------------------------------------------------------
(* Properties of the backing services *)

\* C29: an operation of any of the four collaborators invoked while its handle
\* is unset fails with a service-unavailable error, and the client receives
\* status 503, not the catch-all 500.
C29_UnsetHandleIs503 ==
    \A r \in Reqs : \A c \in Collaborators :
        (Sent(r) /\ hist[r].raised = UnsetHandle(c)) => resp[r].status = 503


\* C30: for every combination of availability of the four backing services,
\* startup reaches 'Application startup complete' and the application begins
\* serving; the liveness probe of each of the four collaborator modules
\* returns a boolean and never raises; startup is never aborted.
C30_StartupCompletes ==
    /\ <>(boot.pc = "serving" /\ boot.log # <<>>
          /\ boot.log[Len(boot.log)] = "Application startup complete")
    /\ [](boot.pc # "failed")
    /\ [](unit.fn = "check_status" =>
             (unit.result.raised = "none" /\ unit.result.value[1] \in BOOLEAN))


-----------------------------------------------------------------------------
(* Properties of the collaborator modules *)

\* C31: for each of the four collaborator modules, init returns without
\* raising whatever the connection attempt does; after an init that failed the
\* handle is None; an init invoked while the handle is set opens no new
\* connection and leaves the handle unchanged (one task calling at a time).
C31_InitNeverRaises ==
    \A t \in Tasks :
        LET k == svc.task[t]
        IN  /\ k.result # "raised"
            /\ (svc.tasks = {t} /\ svc.last = <<"init", t>>) =>
                  /\ k.failed => (svc.handle[k.c] = 0 /\ (k.c = "mysql" => svc.factory = 0))
                  /\ k.found # 0 => (k.made = 0 /\ ~k.failed /\ svc.handle[k.c] = k.found
                                     /\ svc.made[k.c] = k.found)

\* C31 witness: an init failed and left the handle None, after an earlier
\* init of the same module had connected and the module had been shut down
C31_Witness ==
    /\ svc.tasks = {"t1"}
    /\ svc.last = <<"init", "t1">>
    /\ svc.task["t1"].failed
    /\ svc.task["t1"].result = "returned"
    /\ svc.made[svc.c] = 2
    /\ svc.handle[svc.c] = 0

\* C32: when two tasks interleave in the init of a module, at most one
\* connection is established and kept: every established connection is the
\* one the handle refers to, so none is opened twice, overwritten or left
\* unreferenced.
C32_OneConnectionKept ==
    \A c \in Collaborators :
        /\ Cardinality(svc.live[c]) <= 1
        /\ svc.live[c] \subseteq {svc.handle[c]}

\* C35: whenever no init is in progress the engine and the session factory
\* are both set or both unset, and after shutdown_engine get_session fails
\* with the 503 error until a later init_engine succeeds.
C35_ShutdownLeavesUnavailable ==
    /\ (\A t \in Tasks : svc.task[t].pc = "idle") =>
           (svc.handle["mysql"] = 0 <=> svc.factory = 0)
    /\ "mysql" \in svc.down =>
           /\ get_session(svc.factory, "ok", "ok").raised = "AppException"
           /\ get_session(svc.factory, "ok", "ok").status_code = 503

\* the number of times a call was made on the session
Times(events, e) == Cardinality({i \in DOMAIN events : events[i] = e})

\* C37 as stated: if the consumer finishes without error the session is
\* committed and then closed; if the consumer or the commit raises, the
\* session is rolled back, then closed, and the error is re-raised; the
\* session is closed exactly once and never rolled back after a commit that
\* succeeded.
C37_RollbackOnEveryError ==
    (unit.fn = "get_session" /\ unit.args[1] # 0) =>
        LET consumer == unit.args[2]
            commit == unit.args[3]
            events == unit.result.value
        IN  /\ (consumer = "ok" /\ commit = "ok") =>
                  (events = <<"yield", "commit", "close">> /\ unit.result.raised = "none")
            /\ consumer # "ok" =>
                  (events = <<"yield", "rollback", "close">> /\ unit.result.raised = consumer)
            /\ (consumer = "ok" /\ commit # "ok") =>
                  (events = <<"yield", "commit", "rollback", "close">>
                   /\ unit.result.raised = commit)
            /\ Times(events, "close") = 1

\* C37: if the consumer finishes without error the session is committed and
\* then closed; if the consumer or the commit raises an Exception, the session
\* is rolled back, then closed, and the error is re-raised; if the task is
\* cancelled in the consumer or in the commit, the session is closed without a
\* rollback call and the cancellation propagates; the session is closed
\* exactly once, last, and never rolled back after a commit that succeeded.
C37_SessionLifecycle ==
    (unit.fn = "get_session" /\ unit.args[1] # 0) =>
        LET consumer == unit.args[2]
            commit == unit.args[3]
            events == unit.result.value
            failure == IF consumer # "ok" THEN consumer ELSE commit
        IN  /\ unit.result.raised = (IF failure = "ok" THEN "none" ELSE failure)
            /\ Times(events, "commit") = (IF consumer = "ok" THEN 1 ELSE 0)
            /\ Times(events, "rollback") = (IF failure = "Exception" THEN 1 ELSE 0)
            /\ Times(events, "close") = 1
            /\ events[Len(events)] = "close"
            /\ events[1] = "yield"
            /\ Times(events, "rollback") = 1 => events[Len(events) - 1] = "rollback"
            /\ Times(events, "commit") = 1 => events[2] = "commit"

\* C37 witness: the consumer finished, the commit raised, and the session was
\* rolled back and closed
C37_Witness ==
    /\ unit.fn = "get_session"
    /\ unit.args = <<1, "ok", "Exception">>
    /\ unit.result.value = <<"yield", "commit", "rollback", "close">>
    /\ unit.result.raised = "Exception"


\* the number of failures before the first attempt that succeeds
FailuresBefore(outcomes) ==
    Cardinality({k \in DOMAIN outcomes : \A j \in 1..k : outcomes[j] # "ok"})

\* the sleeps after the failed attempts 1..n: 0.5 s doubled each time
Backoff(n) == [k \in 1..n |-> 500 * 2^(k - 1)]

\* C36: _connect_to_opensearch makes at most max_attempts attempts: it
\* returns the client of the first attempt that succeeds, raises the last
\* failure after exactly max_attempts consecutive failures, sleeps
\* 0.5 * 2^(k-1) seconds after the k-th failed attempt when k < max_attempts
\* and does not sleep after the final failure; init_client makes at most
\* 2 * max_attempts attempts, the fallback ones only when the host is https
\* and the primary failure was a connection error.
C36_BoundedRetries ==
    /\ unit.fn = "_connect_to_opensearch" =>
          LET outcomes == unit.args[1]
              limit == unit.args[2]
              n == FailuresBefore(outcomes)
          IN  /\ unit.result.attempts <= limit
              /\ n < limit => /\ unit.result.raised = "none"
                              /\ unit.result.attempts = n + 1
                              /\ unit.result.sleeps = Backoff(n)
              /\ n >= limit => /\ unit.result.raised = outcomes[limit]
                               /\ unit.result.attempts = limit
                               /\ unit.result.sleeps = Backoff(limit - 1)
    /\ unit.fn = "init_client" =>
          LET use_ssl == unit.args[1]
              primary == unit.args[2]
              fallback == unit.args[3]
              n == FailuresBefore(primary)
              fell_back == use_ssl /\ n = 5 /\ primary[5] = "ConnectionError"
          IN  /\ unit.result.attempts <= 2 * 5
              /\ unit.result.attempts =
                    (IF n < 5 THEN n + 1 ELSE 5)
                    + (IF ~fell_back THEN 0
                       ELSE IF FailuresBefore(fallback) < 5 THEN FailuresBefore(fallback) + 1
                       ELSE 5)
              /\ unit.result.client # "none" <=>
                    (n < 5 \/ (fell_back /\ FailuresBefore(fallback) < 5))

\* C36 witness: five attempts failed, the last with a connection error, and
\* the loop raised it after sleeping 0.5, 1, 2 and 4 seconds
C36_Witness ==
    /\ unit.fn = "_connect_to_opensearch"
    /\ unit.args[2] = 5
    /\ unit.result.attempts = 5
    /\ unit.result.raised = "ConnectionError"
    /\ unit.result.sleeps = <<500, 1000, 2000, 4000>>


\* C33: when Redis was unavailable at startup, rate limiting is disabled and
\* a request to a rate-limited router (users, search, cache, messages) is
\* still processed by its handler instead of failing in the rate-limit
\* dependency.
C33_RateLimitDegrades ==
    (unit.fn = "rate_limited_route" /\ unit.args[1] = 0) =>
        /\ unit.result.raised = "none"
        /\ unit.result.handler


\* the content type of the response call_next gave for r
OriginType(r) == HGet(hist[r].origin.headers, "content-type", "")

\* the response of r is one the correlation stage passes on: call_next gave
\* one, and it is not JSON by its content type or the path is a
\* documentation or static path
PassedOn(r) ==
    /\ hist[r].releases > 0
    /\ hist[r].origin # NoResponse
    /\ \/ req[r].path \in {"/docs", "/redoc", "/openapi.json", "/favicon.ico", "/robots.txt"}
       \/ OriginType(r) \notin {"application/json", "application/json; charset=utf-8"}

\* C34: when the content type of the response does not start with
\* application/json, or the path is one of /docs, /redoc, /openapi.json,
\* /favicon.ico, /robots.txt, the correlation stage does not read the body
\* stream and returns the response of the handler with its body, status and
\* headers unchanged except for the added X-Correlation-ID header.
C34_NonJsonPassedThrough ==
    \A r \in Reqs :
        (Sent(r) /\ PassedOn(r)) =>
            /\ hist[r].rewrite = "none"
            /\ resp[r].body = hist[r].origin.body
            /\ resp[r].status = hist[r].origin.status
            /\ resp[r].stream = hist[r].origin.stream
            /\ resp[r].headers =
                  HSet(hist[r].origin.headers, CORRELATION_HEADER, HGet(resp[r].headers, CORRELATION_HEADER, ""))
            /\ \A h \in {"content-type", "content-length", "set-cookie", "x-request-cost"} :
                  HValues(resp[r].headers, h) = HValues(hist[r].origin.headers, h)

\* C34 witness: a JSON response on /docs was sent as the handler gave it
C34_Witness ==
    \E r \in Reqs :
        /\ Sent(r)
        /\ req[r].path = "/docs"
        /\ hist[r].releases > 0
        /\ OriginType(r) = "application/json"
        /\ hist[r].origin.stream.chunks > 0
        /\ resp[r].body = hist[r].origin.body

\* C34 witness for the other case: an HTML response on /users
C34_WitnessHtml ==
    \E r \in Reqs :
        /\ Sent(r)
        /\ req[r].path = "/users"
        /\ hist[r].releases > 0
        /\ OriginType(r) = "text/html; charset=utf-8"
        /\ resp[r].body = hist[r].origin.body


\* C38: after startup has loaded secrets and refreshed the settings, the
\* token verifier, the error responder and the logger use the refreshed
\* configuration: the secret, algorithm, audience and issuer of the verifier
\* equal those of the current settings, and the redaction set of the error
\* responder equals the one of the log formatter.
C38_RefreshReachesAll ==
    boot.secrets = "loaded" =>
        /\ boot.imported.secret = boot.settings.secret
        /\ jwt_cfg.algorithm = boot.settings.algorithm
        /\ jwt_cfg.audience = boot.settings.audience
        /\ jwt_cfg.issuer = boot.settings.issuer
        /\ pii_fields = formatter_pii
        /\ formatter_pii = boot.settings.pii

====
